---- MODULE Spec2Model ----
(***************************************************************************)
(* State-machine model of the SciCoDa data library: the package data       *)
(* directory (Category Table Store), the process-wide cache of the Cached  *)
(* Loader (data.get_file), the CCD accessor (pdb.ccd), the update drivers  *)
(* (update.pdb.ccd, update.update_all) with the CCD curator                *)
(* (create.pdb.ccd), and the periodic table of create.atom and             *)
(* fetch.pubchem.                                                          *)
(***************************************************************************)
EXTENDS Integers, Sequences, FiniteSets, TLC

VARIABLES
    files,      \* the data directory: path string -> stored content
    cache,      \* data._cache: category -> (name -> loaded object)
    nextId,     \* identity of the next object a load creates
    importable, \* whether "from scicoda.update.pdb import ccd" succeeds
    runs,       \* number of update-pipeline runs started so far
    last,       \* the last completed call: operation, arguments, outcome
    threads     \* per thread: its position in data.get_file and its locals

vars == <<files, cache, nextId, importable, runs, last, threads>>

(***************************************************************************)
(* Bounds of the model.                                                    *)
(***************************************************************************)
MaxLoads == 3      \* loads that create a fresh object
MaxRuns == 2       \* runs of the update pipeline
MaxRows == 2       \* rows of a table of a fetched dictionary

(***************************************************************************)
(* Values.                                                                 *)
(***************************************************************************)
\* Python's None.
None == [id |-> 0, kind |-> "None", data |-> <<>>]

\* An empty dict.
EmptyDict == [k \in {} |-> None]

\* A call that returned a value / raised an exception.
Return(v) == [kind |-> "return", value |-> v]
Raise(exc, info) == [kind |-> "raise", exc |-> exc, info |-> info]

Returned(r) == r.kind = "return"
Raised(r, exc) == r.kind = "raise" /\ r.exc = exc

\* exception.ScicodaFileNotFoundError(category, name, filepath)
ScicodaFileNotFoundError(category, name, filepath) ==
    Raise("ScicodaFileNotFoundError",
          [category |-> category, name |-> name, filepath |-> filepath])

\* exception.ScicodaInputError(parameter, argument, message_detail): the
\* message is built from the argument, the parameter and the detail, so it
\* mentions exactly the words of those three.
ScicodaInputError(parameter, argument, detail_words) ==
    Raise("ScicodaInputError",
          [parameter |-> parameter, argument |-> argument,
           mentions |-> {parameter, argument} \cup detail_words])

\* exception.ScicodaMissingDependencyError(message_details)
ScicodaMissingDependencyError ==
    Raise("ScicodaMissingDependencyError", [module |-> "scicoda.pdb"])

(***************************************************************************)
(* data.py: the Category Table Store.                                      *)
(***************************************************************************)
\* data._data_dir
data_dir == "data"

\* A path built without the extension.
FilePathNoExtension(category, name, extension) ==
    data_dir \o "/" \o category \o "/" \o name

\* _data_dir / category / f"{name}.{extension}"
FilePath(category, name, extension) ==
    data_dir \o "/" \o category \o "/" \o name \o "." \o extension

\* Path.is_file()
is_file(fs, filepath) == filepath \in DOMAIN fs

\* data.get_filepath
get_filepath(fs, category, name, extension) ==
    LET filepath == FilePath(category, name, extension) IN
    IF ~ is_file(fs, filepath)
    THEN ScicodaFileNotFoundError(category, name, filepath)
    ELSE Return(filepath)

(***************************************************************************)
(* data.py: the Cached Loader.                                             *)
(***************************************************************************)
\* A lookup that always misses.
CacheGetMiss(c, category, name) == None

\* _cache.get(category, {}).get(name)
CacheGet(c, category, name) ==
    IF category \in DOMAIN c /\ name \in DOMAIN c[category]
    THEN c[category][name]
    ELSE None

\* An insertion that stores a table without its last row, as a filtered
\* result would be.
CacheSetFiltered(c, category, name, file) ==
    LET inner == IF category \in DOMAIN c THEN c[category] ELSE EmptyDict
        part == IF file.kind = "json" \/ Len(file.data) = 0 THEN file
                ELSE [file EXCEPT !.data = SubSeq(file.data, 1, Len(file.data) - 1)]
    IN
    [k \in DOMAIN c \cup {category} |->
        IF k = category
        THEN [n \in DOMAIN inner \cup {name} |->
                 IF n = name THEN part ELSE inner[n]]
        ELSE c[k]]

\* _cache.setdefault(category, {})[name] = file
CacheSet(c, category, name, file) ==
    LET inner == IF category \in DOMAIN c THEN c[category] ELSE EmptyDict IN
    [k \in DOMAIN c \cup {category} |->
        IF k = category
        THEN [n \in DOMAIN inner \cup {name} |->
                 IF n = name THEN file ELSE inner[n]]
        ELSE c[k]]

\* What a write that failed half way leaves in its file; polars cannot read it.
TornFile == << [torn |-> TRUE] >>

\* A read that takes every extension other than "json" for a table.
ReadFileAnyExtension(fs, filepath, extension, lazy, id) ==
    IF extension = "json"
    THEN Return([id |-> id, kind |-> "json", data |-> fs[filepath]])
    ELSE Return([id |-> id,
                 kind |-> IF lazy THEN "LazyFrame" ELSE "DataFrame",
                 data |-> fs[filepath]])

\* json.loads(filepath.read_text()) / pl.scan_parquet / pl.read_parquet:
\* a load creates a new object (identity id) holding the stored content; the
\* kind of the object follows the extension and the lazy flag.
ReadFile(fs, filepath, extension, lazy, id) ==
    IF extension = "json"
    THEN Return([id |-> id, kind |-> "json", data |-> fs[filepath]])
    ELSE IF extension = "parquet" /\ fs[filepath] = TornFile
    THEN Raise("ComputeError", [filepath |-> filepath])
    ELSE IF extension = "parquet"
    THEN Return([id |-> id,
                 kind |-> IF lazy THEN "LazyFrame" ELSE "DataFrame",
                 data |-> fs[filepath]])
    ELSE ScicodaInputError("extension", extension, {"Unsupported", "file", "extension"})

\* An insertion that ignores the cache flag.
StoreLoadedAlways(c, category, name, file, cacheFlag) ==
    CacheSet(c, category, name, file)

\* if cache: _cache.setdefault(category, {})[name] = file
StoreLoaded(c, category, name, file, cacheFlag) ==
    IF cacheFlag THEN CacheSet(c, category, name, file) ELSE c

\* A loader that examines the extension before it looks the file up.
get_file_validate_first(fs, c, id, category, name, extension, lazy, cacheFlag) ==
    LET cached == CacheGet(c, category, name)
        fp == get_filepath(fs, category, name, extension)
    IN
    IF cached # None
    THEN [res |-> Return(cached), cache |-> c, loaded |-> FALSE]
    ELSE IF extension \notin {"json", "parquet"}
    THEN [res |-> ScicodaInputError("extension", extension,
                                    {"Unsupported", "file", "extension"}),
          cache |-> c, loaded |-> FALSE]
    ELSE IF ~ Returned(fp)
    THEN [res |-> fp, cache |-> c, loaded |-> FALSE]
    ELSE LET file == ReadFile(fs, fp.value, extension, lazy, id) IN
         IF ~ Returned(file)
         THEN [res |-> file, cache |-> c, loaded |-> FALSE]
         ELSE [res |-> file,
               cache |-> StoreLoaded(c, category, name, file.value, cacheFlag),
               loaded |-> TRUE]

\* data.get_file: the result, the cache after the call, and whether the call
\* created a new object.
get_file(fs, c, id, category, name, extension, lazy, cacheFlag) ==
    LET cached == CacheGet(c, category, name)
        fp == get_filepath(fs, category, name, extension)
    IN
    IF cached # None
    THEN [res |-> Return(cached), cache |-> c, loaded |-> FALSE]
    ELSE IF ~ Returned(fp)
    THEN [res |-> fp, cache |-> c, loaded |-> FALSE]
    ELSE LET file == ReadFile(fs, fp.value, extension, lazy, id) IN
         IF ~ Returned(file)
         THEN [res |-> file, cache |-> c, loaded |-> FALSE]
         ELSE [res |-> file,
               cache |-> StoreLoaded(c, category, name, file.value, cacheFlag),
               loaded |-> TRUE]

\* The parameters of data.get_file (lines 47-54).
get_file_params == {"category", "name", "extension", "lazy", "cache"}

\* Binding the keywords of a call to the parameters of the function, before
\* the body runs: TypeError on a keyword that names no parameter.
BindKeywords(params, keywords) ==
    IF keywords \subseteq params THEN Return(None)
    ELSE Raise("TypeError",
               [unexpected_keyword |-> CHOOSE k \in keywords \ params : TRUE])

\* A call data.get_file(category=..., name=..., extension=..., **keywords)
\* that leaves lazy and cache at their defaults.
call_get_file(fs, c, id, category, name, extension, keywords) ==
    LET bound == BindKeywords(get_file_params, keywords) IN
    IF ~ Returned(bound) THEN [res |-> bound, cache |-> c, loaded |-> FALSE]
    ELSE get_file(fs, c, id, category, name, extension, FALSE, TRUE)

(***************************************************************************)
(* Tables: a table is a sequence of rows, a row maps column names to       *)
(* values, a dict maps keys to values.                                     *)
(***************************************************************************)
\* d[k] = v on a dict
DictSet(d, k, v) == [x \in DOMAIN d \cup {k} |-> IF x = k THEN v ELSE d[x]]

\* d.get(k, default)
DictGet(d, k, default) == IF k \in DOMAIN d THEN d[k] ELSE default

\* df.columns
Columns(df) == IF Len(df) = 0 THEN {} ELSE DOMAIN df[1]

\* df.drop(cols)
DropCols(df, cols) ==
    [i \in 1..Len(df) |-> [c \in (DOMAIN df[i]) \ cols |-> df[i][c]]]

\* The rows of df at the indices in keep, in order.
RECURSIVE RowsAt(_, _, _)
RowsAt(df, keep, i) ==
    IF i > Len(df) THEN << >>
    ELSE (IF i \in keep THEN << df[i] >> ELSE << >>) \o RowsAt(df, keep, i + 1)

\* df.filter(mask)
FilterRows(df, keep) == RowsAt(df, keep, 1)

\* str.to_lowercase, on the identifiers that occur in the model
Lower(s) ==
    CASE s = "ATP" -> "atp"
      [] s = "ADP" -> "adp"
      [] s = "ALA" -> "ala"
      [] s = "Ala" -> "ala"
      [] s = "ALX" -> "alx"
      [] OTHER -> s

\* Lexicographic order of the atom identifiers that occur in the model.
AtomRank(a) ==
    CASE a = "C1" -> 1
      [] a = "N1" -> 2
      [] a = "O1" -> 3
      [] OTHER -> 0

\* pl.min_horizontal / pl.max_horizontal on two atom identifiers
min_horizontal(a, b) == IF AtomRank(a) <= AtomRank(b) THEN a ELSE b
max_horizontal(a, b) == IF AtomRank(a) <= AtomRank(b) THEN b ELSE a

(***************************************************************************)
(* create/pdb.py: the CCD curator.                                         *)
(***************************************************************************)
\* esd_cols_suffix
esd_cols_suffix == "_esd_digits"

\* col.endswith(esd_cols_suffix), on the column names of the model
IsEsdCol(col) ==
    \E stem \in {"value_dist", "name"} : col = stem \o esd_cols_suffix

\* _CCD_CATEGORY_CHECK.get(cat_name, {}).get("id_cols")
CCD_CATEGORY_CHECK(cat_name) ==
    CASE cat_name = "chem_comp" -> {"id"}
      [] cat_name = "chem_comp_atom" -> {"comp_id", "atom_id"}
      [] cat_name = "chem_comp_bond" -> {"comp_id", "atom_id_1", "atom_id_2"}
      [] cat_name = "pdbx_chem_comp_atom_related" ->
            {"comp_id", "atom_id", "related_comp_id", "related_atom_id"}
      [] cat_name = "pdbx_chem_comp_pcm" -> {"comp_id", "pcm_id"}
      [] cat_name = "pdbx_chem_comp_synonyms" -> {"comp_id", "ordinal"}
      [] OTHER -> {}

\* id_col = "id" if cat_name == "chem_comp" else "comp_id"
IdCol(cat_name) == IF cat_name = "chem_comp" THEN "id" ELSE "comp_id"

\* A comparison of the block code and the id that minds the letter case.
BlockMatchesIdCaseSensitive(df, id_col) ==
    \A i \in 1..Len(df) : df[i]["_block"] = df[i][id_col]

\* (cat.df["_block"].str.to_lowercase() == cat.df[id_col].str.to_lowercase()).all()
BlockMatchesId(df, id_col) ==
    \A i \in 1..Len(df) : Lower(df[i]["_block"]) = Lower(df[i][id_col])

\* The bond normalisation of the local cat_df.
NormalizeBonds(df) ==
    [i \in 1..Len(df) |->
        [c \in DOMAIN df[i] |->
            IF c = "atom_id_1"
            THEN min_horizontal(df[i]["atom_id_1"], df[i]["atom_id_2"])
            ELSE IF c = "atom_id_2"
            THEN max_horizontal(df[i]["atom_id_1"], df[i]["atom_id_2"])
            ELSE df[i][c]]]

\* The local cat_df of one category: ESD columns removed, bonds normalised.
LocalCatDf(cat_name, df) ==
    LET stripped == DropCols(df, {c \in Columns(df) : IsEsdCol(c)}) IN
    IF cat_name = "chem_comp_bond" THEN NormalizeBonds(stripped) ELSE stripped

\* The table the first loop appends to category_dfs[cat_name]: cat.df, the
\* category's table after the _block column is dropped (line 94 appends
\* cat.df, not the local cat_df).
AppendedDf(cat_name, df) ==
    LET cat_df == LocalCatDf(cat_name, DropCols(df, {"_block"})) IN
    DropCols(df, {"_block"})

\* A record of the validation errors that files them all under "main".
RecordValidationUnderMain(problems, ccd_variant, cat_name, errors) ==
    IF Len(errors) > 0
    THEN DictSet(problems, "main",
                 DictSet(DictGet(problems, "main", EmptyDict), cat_name,
                         [validation |-> errors]))
    ELSE problems

\* problems.setdefault(ccd_variant, {})[cat_name] = {"validation": errors}
RecordValidation(problems, ccd_variant, cat_name, errors) ==
    IF Len(errors) > 0
    THEN DictSet(problems, ccd_variant,
                 DictSet(DictGet(problems, ccd_variant, EmptyDict), cat_name,
                         [validation |-> errors]))
    ELSE problems

\* An update of amino_acid_comp_ids that takes the ids of both dictionaries.
UpdateAminoAcidIdsAnyVariant(ids, ccd_variant, cat_name, df, id_col) ==
    IF cat_name = "chem_comp"
    THEN ids \cup {df[j][id_col] : j \in 1..Len(df)}
    ELSE ids

\* if ccd_variant == "protonation" and cat_name == "chem_comp":
\*     amino_acid_comp_ids.update(cat.df[id_col].to_list())
UpdateAminoAcidIds(ids, ccd_variant, cat_name, df, id_col) ==
    IF ccd_variant = "protonation" /\ cat_name = "chem_comp"
    THEN ids \cup {df[j][id_col] : j \in 1..Len(df)}
    ELSE ids

\* The first loop of create.pdb.ccd over the categories of one variant,
\* from category i on. acc holds category_dfs (with its key order),
\* amino_acid_comp_ids, problems and whether the loop raised.
RECURSIVE ReadVariant(_, _, _, _)
ReadVariant(ccd_variant, cats, i, acc) ==
    IF i > Len(cats) \/ acc.raised THEN acc
    ELSE
    LET cat_name == cats[i].name
        df == cats[i].df
        id_col == IdCol(cat_name)
    IN
    IF ~ BlockMatchesId(df, id_col)
    THEN [acc EXCEPT !.raised = TRUE]
    ELSE
    LET appended == AppendedDf(cat_name, df)
        dfs == DictGet(acc.category_dfs, cat_name, << >>)
    IN
    ReadVariant(ccd_variant, cats, i + 1,
        [raised |-> FALSE,
         order |-> IF cat_name \in DOMAIN acc.category_dfs
                   THEN acc.order ELSE Append(acc.order, cat_name),
         category_dfs |-> DictSet(acc.category_dfs, cat_name, Append(dfs, appended)),
         amino_acid_comp_ids |->
            UpdateAminoAcidIds(acc.amino_acid_comp_ids, ccd_variant, cat_name,
                               DropCols(df, {"_block"}), id_col),
         problems |-> RecordValidation(acc.problems, ccd_variant, cat_name,
                                       cats[i].errors)])

\* The identity key of a row.
KeyOf(row, id_cols) == [c \in id_cols |-> row[c]]

\* dfhelp.deduplicate_by_cols(df, id_cols): the rows kept (the first of each
\* identity key) and the rows removed.
deduplicate_by_cols(df, id_cols) ==
    LET first == {i \in 1..Len(df) :
                    \A j \in 1..(i - 1) : KeyOf(df[j], id_cols) # KeyOf(df[i], id_cols)}
    IN [df |-> FilterRows(df, first),
        dupes |-> FilterRows(df, (1..Len(df)) \ first)]

\* dfhelp.merge_rows(df1, df2, id_cols): the rows of df1, then the rows of
\* df2 whose identity key df1 lacks; the conflicts are the rows of df2 whose
\* key df1 has with other values.
merge_rows(df1, df2, id_cols) ==
    LET keys1 == {KeyOf(df1[i], id_cols) : i \in 1..Len(df1)}
        new == {j \in 1..Len(df2) : KeyOf(df2[j], id_cols) \notin keys1}
        clash == {j \in 1..Len(df2) :
                    /\ KeyOf(df2[j], id_cols) \in keys1
                    /\ \A i \in 1..Len(df1) : df1[i] # df2[j]}
    IN [df |-> df1 \o FilterRows(df2, new), conflicts |-> FilterRows(df2, clash)]

\* Identity columns that are the component id column alone.
IdColsComponentOnly(cat_name, variant_dfs) == {IdCol(cat_name)}

\* id_cols of a category: the fixed table, else the columns common to the
\* variants' tables.
IdCols(cat_name, variant_dfs) ==
    IF CCD_CATEGORY_CHECK(cat_name) # {}
    THEN CCD_CATEGORY_CHECK(cat_name)
    ELSE {c \in Columns(variant_dfs[1]) :
            \A k \in 1..Len(variant_dfs) : c \in Columns(variant_dfs[k])}

\* zip(("main", "protonation"), variant_dfs): the name the second loop gives
\* the k-th table of a category.
VarianteName(k) == IF k = 1 THEN "main" ELSE "protonation"

\* problems.setdefault(variante_name, {}).setdefault(cat_name, {})["duplicates"] = dupes
RecordDuplicates(problems, variante_name, cat_name, dupes) ==
    IF Len(dupes) > 0
    THEN LET of_variant == DictGet(problems, variante_name, EmptyDict)
             of_cat == DictGet(of_variant, cat_name, EmptyDict)
         IN DictSet(problems, variante_name,
                    DictSet(of_variant, cat_name, DictSet(of_cat, "duplicates", dupes)))
    ELSE problems

\* problems.setdefault("merge", {})[cat_name] = conflicts
RecordConflicts(problems, cat_name, conflicts) ==
    IF Len(conflicts) > 0
    THEN DictSet(problems, "merge",
                 DictSet(DictGet(problems, "merge", EmptyDict), cat_name, conflicts))
    ELSE problems

\* The deduplication loop over the tables of one category.
RECURSIVE DedupVariants(_, _, _, _, _)
DedupVariants(cat_name, variant_dfs, id_cols, k, acc) ==
    IF k > Len(variant_dfs) THEN acc
    ELSE LET d == deduplicate_by_cols(variant_dfs[k], id_cols) IN
         DedupVariants(cat_name, variant_dfs, id_cols, k + 1,
            [dedup |-> Append(acc.dedup, d.df),
             problems |-> RecordDuplicates(acc.problems, VarianteName(k),
                                           cat_name, d.dupes)])

\* A merge that puts the protonation table first.
MergeVariantsProtonationFirst(variant_dfs_dedup, id_cols) ==
    IF Len(variant_dfs_dedup) = 1
    THEN [df |-> variant_dfs_dedup[1], conflicts |-> << >>]
    ELSE merge_rows(variant_dfs_dedup[2], variant_dfs_dedup[1], id_cols)

\* merged_df, conflicts = (variant_dfs_dedup[0], []) if
\* len(variant_dfs_dedup) == 1 else dfhelp.merge_rows(variant_dfs_dedup[0],
\* variant_dfs_dedup[1], id_cols)
MergeVariants(variant_dfs_dedup, id_cols) ==
    IF Len(variant_dfs_dedup) = 1
    THEN [df |-> variant_dfs_dedup[1], conflicts |-> << >>]
    ELSE merge_rows(variant_dfs_dedup[1], variant_dfs_dedup[2], id_cols)

\* The second loop of create.pdb.ccd, from the i-th category of category_dfs
\* on. acc holds the two output mappings and problems, and for each category
\* the values its iteration gave the locals id_cols, variant_dfs_dedup and
\* merged_df.
RECURSIVE MergeCategories(_, _, _, _, _)
MergeCategories(order, category_dfs, aa_ids, i, acc) ==
    IF i > Len(order) THEN acc
    ELSE
    LET cat_name == order[i]
        variant_dfs == category_dfs[cat_name]
        id_cols == IdCols(cat_name, variant_dfs)
        dd == DedupVariants(cat_name, variant_dfs, id_cols, 1,
                            [dedup |-> << >>, problems |-> acc.problems])
        merged == MergeVariants(dd.dedup, id_cols)
        id_col == IdCol(cat_name)
        is_aa == {j \in 1..Len(merged.df) : merged.df[j][id_col] \in aa_ids}
    IN
    MergeCategories(order, category_dfs, aa_ids, i + 1,
        [id_cols |-> DictSet(acc.id_cols, cat_name, id_cols),
         variant_dfs_dedup |-> DictSet(acc.variant_dfs_dedup, cat_name, dd.dedup),
         merged_df |-> DictSet(acc.merged_df, cat_name, merged.df),
         category_df_aa |->
            DictSet(acc.category_df_aa, cat_name, FilterRows(merged.df, is_aa)),
         category_df_non_aa |->
            DictSet(acc.category_df_non_aa, cat_name,
                    FilterRows(merged.df, (1..Len(merged.df)) \ is_aa)),
         problems |-> RecordConflicts(dd.problems, cat_name, merged.conflicts)])

\* The first loop of create.pdb.ccd over both variants: category_dfs (with
\* its key order), amino_acid_comp_ids, problems, and whether it raised.
ccd_read_variants(source) ==
    LET start == [raised |-> FALSE, order |-> << >>, category_dfs |-> EmptyDict,
                  amino_acid_comp_ids |-> {}, problems |-> EmptyDict]
        main == ReadVariant("main", source.main, 1, start)
    IN ReadVariant("protonation", source.protonation, 1, main)

\* The locals of create.pdb.ccd when it reaches its return statement, on
\* dictionaries whose first loop ended as both.
ccd_locals(both) ==
    MergeCategories(both.order, both.category_dfs, both.amino_acid_comp_ids, 1,
                    [id_cols |-> EmptyDict,
                     variant_dfs_dedup |-> EmptyDict,
                     merged_df |-> EmptyDict,
                     category_df_aa |-> EmptyDict,
                     category_df_non_aa |-> EmptyDict,
                     problems |-> both.problems])
    @@ [order |-> both.order, category_dfs |-> both.category_dfs,
        amino_acid_comp_ids |-> both.amino_acid_comp_ids]

\* create.pdb.ccd on the two fetched dictionaries: the two output mappings
\* (with their key order) and the problems, or the exception raised.
create_pdb_ccd(source) ==
    IF ~ source.fetched THEN Raise("ConnectionError", [stage |-> "fetch"])
    ELSE
    LET both == ccd_read_variants(source) IN
    IF both.raised THEN Raise("ValueError", [stage |-> "block"])
    ELSE
    LET out == ccd_locals(both)
    IN Return([order |-> both.order,
               category_df_aa |-> out.category_df_aa,
               category_df_non_aa |-> out.category_df_non_aa,
               problems |-> out.problems])

(***************************************************************************)
(* create/atom.py and fetch/pubchem.py: the periodic table.                *)
(***************************************************************************)
\* A nullable cell of a polars column: null, or a value.
Null == << >>
Some(v) == << v >>

\* The names data.py binds at module level (lines 1-16, 21, 103).
data_module_names ==
    { "annotations", "json", "TYPE_CHECKING", "overload", "pkgdata", "pl",
      "exception", "_data_dir", "get_file", "get_filepath" }

\* from <module> import <name>, for a module that binds the given names.
ImportFrom(names, name) ==
    IF name \notin names THEN Raise("ImportError", [name |-> name])
    ELSE Return(None)

\* The import of scicoda.create.atom: its line 5 is
\* "from scicoda.data import get_data".
import_create_atom == ImportFrom(data_module_names, "get_data")

\* .cast(pl.UInt8), strict: a value outside 0..255 makes the cast raise.
cast_UInt8(cell) ==
    IF cell = Null THEN Return(Null)
    ELSE IF cell[1] \in 0..255 THEN Return(cell)
    ELSE Raise("InvalidOperationError", [value |-> cell[1]])

\* create/atom.py, expr_period before its cast
period_before_cast(z) ==
    IF z <= 2 THEN Some(1)
    ELSE IF z <= 10 THEN Some(2)
    ELSE IF z <= 18 THEN Some(3)
    ELSE IF z <= 36 THEN Some(4)
    ELSE IF z <= 54 THEN Some(5)
    ELSE IF z <= 86 THEN Some(6)
    ELSE IF z <= 118 THEN Some(7)
    ELSE Null

\* create/atom.py, expr_period
expr_period(z) == cast_UInt8(period_before_cast(z))

\* create/atom.py, period_start: the atomic number before the period begins
period_start(z) ==
    IF z <= 2 THEN 0
    ELSE IF z <= 10 THEN 2
    ELSE IF z <= 18 THEN 10
    ELSE IF z <= 36 THEN 18
    ELSE IF z <= 54 THEN 36
    ELSE IF z <= 86 THEN 54
    ELSE 86

\* create/atom.py, position_in_period = z - period_start (a signed integer:
\* the literals of period_start make a signed column)
position_in_period(z) == z - period_start(z)

\* A group expression without the shift by 14 for periods 6 and 7.
group_before_cast_no_shift(z) ==
    LET pos == position_in_period(z) IN
    IF z = 2 THEN Some(18)
    ELSE IF z >= 58 /\ z <= 71 THEN Null
    ELSE IF z >= 90 /\ z <= 103 THEN Null
    ELSE IF pos = 1 THEN Some(1)
    ELSE IF pos = 2 THEN Some(2)
    ELSE IF z <= 10 /\ pos >= 3 THEN Some(pos + 10)
    ELSE IF z <= 18 /\ pos >= 3 THEN Some(pos + 10)
    ELSE Some(pos)

\* create/atom.py, expr_group before its cast
group_before_cast(z) ==
    LET pos == position_in_period(z) IN
    IF z = 2 THEN Some(18)
    ELSE IF z >= 58 /\ z <= 71 THEN Null
    ELSE IF z >= 90 /\ z <= 103 THEN Null
    ELSE IF pos = 1 THEN Some(1)
    ELSE IF pos = 2 THEN Some(2)
    ELSE IF z <= 10 /\ pos >= 3 THEN Some(pos + 10)
    ELSE IF z <= 18 /\ pos >= 3 THEN Some(pos + 10)
    ELSE IF z >= 72 /\ z <= 86 THEN Some(pos - 14)
    ELSE IF z >= 104 THEN Some(pos - 14)
    ELSE Some(pos)

\* A group expression that also nulls the first element of each f-block row.
expr_group_null_from_La(z) ==
    IF (z >= 57 /\ z <= 71) \/ (z >= 89 /\ z <= 103) THEN Return(Null)
    ELSE cast_UInt8(group_before_cast(z))

\* create/atom.py, expr_group
expr_group(z) == cast_UInt8(group_before_cast(z))

\* The schema of pl.read_csv: the columns of the PubChem table.
RawColumns ==
    { "AtomicNumber", "Symbol", "Name", "AtomicMass", "CPKHexColor",
      "ElectronConfiguration", "Electronegativity", "AtomicRadius",
      "IonizationEnergy", "ElectronAffinity", "OxidationStates",
      "StandardState", "MeltingPoint", "BoilingPoint", "Density",
      "GroupBlock", "YearDiscovered" }

\* df.sort(col) on an integer column: stable, ascending.
sort(df, col) ==
    LET Rank(i) == Cardinality({j \in 1..Len(df) :
                       \/ df[j][col] < df[i][col]
                       \/ df[j][col] = df[i][col] /\ j < i}) + 1
    IN [k \in 1..Len(df) |-> df[CHOOSE i \in 1..Len(df) : Rank(i) = k]]

\* The columns the expressions of with_columns rewrite, with the operation
\* each applies to its cell.
RewrittenColumns ==
    [Name |-> "to_lowercase", ElectronConfiguration |-> "strip_suffix",
     OxidationStates |-> "split_to_int_list", StandardState |-> "to_state_enum",
     GroupBlock |-> "to_lowercase", YearDiscovered |-> "to_uint16"]

\* df.with_columns([...]) of create/atom.py on the row at position i: the
\* rewritten cells, the period, the group and the i-th Blue Obelisk radius.
with_columns_row(row, i, vdwr) ==
    [c \in DOMAIN row \cup {"period", "group", "vdwr_bo"} |->
        IF c = "period" THEN expr_period(row["AtomicNumber"]).value
        ELSE IF c = "group" THEN expr_group(row["AtomicNumber"]).value
        ELSE IF c = "vdwr_bo" THEN vdwr[i]
        ELSE IF c \in DOMAIN RewrittenColumns
        THEN [expr |-> RewrittenColumns[c], cell |-> row[c]]
        ELSE row[c]]

\* The mapping of df.rename in create/atom.py
RenameMap ==
    [AtomicNumber |-> "z", Symbol |-> "symbol", Name |-> "name",
     AtomicMass |-> "mass", CPKHexColor |-> "color_cpk",
     ElectronConfiguration |-> "econfig", Electronegativity |-> "en_pauling",
     AtomicRadius |-> "vdwr", IonizationEnergy |-> "ie",
     ElectronAffinity |-> "ea", OxidationStates |-> "oxstates",
     StandardState |-> "state", MeltingPoint |-> "mp", BoilingPoint |-> "bp",
     Density |-> "density", GroupBlock |-> "block", YearDiscovered |-> "year"]

\* df.rename(mapping) on one row
rename_row(row, mapping) ==
    LET NewName(c) == IF c \in DOMAIN mapping THEN mapping[c] ELSE c IN
    [n \in {NewName(c) : c \in DOMAIN row} |->
        row[CHOOSE c \in DOMAIN row : NewName(c) = n]]

\* column_order of create/atom.py
column_order ==
    << "z", "symbol", "name", "period", "group", "block", "econfig", "mass",
       "vdwr", "vdwr_bo", "ie", "ea", "en_pauling", "oxstates", "state", "mp",
       "bp", "density", "color_cpk", "year" >>

\* df.select(column_order) on one row
select_row(row, cols) == [c \in cols |-> row[c]]

\* create.atom.periodic_table once its module is imported: df is the table
\* pl.read_csv returned, vdwr the list of Blue Obelisk radii. The sort by
\* "z" (line 262) comes before the rename that creates the column "z".
periodic_table_body(df, vdwr) ==
    IF "z" \notin Columns(df)
    THEN Raise("ColumnNotFoundError", [column |-> "z"])
    ELSE LET sorted == sort(df, "z")
             casts == {expr_group(sorted[i]["AtomicNumber"]) : i \in 1..Len(sorted)}
                      \cup {expr_period(sorted[i]["AtomicNumber"]) : i \in 1..Len(sorted)}
         IN IF \E r \in casts : ~ Returned(r)
            THEN CHOOSE r \in casts : ~ Returned(r)
            ELSE Return([columns |-> column_order,
                         rows |-> [i \in 1..Len(sorted) |->
                            select_row(rename_row(with_columns_row(sorted[i], i, vdwr),
                                                  RenameMap),
                                       {column_order[k] : k \in 1..Len(column_order)})]])

\* A call create.atom.periodic_table() by a caller that imports the module
\* first: the import runs line 5 of the module.
create_atom_periodic_table(df, vdwr) ==
    IF ~ Returned(import_create_atom) THEN import_create_atom
    ELSE periodic_table_body(df, vdwr)

\* fetch/pubchem.py, expr_period before its cast
fetch_period_before_cast(z) ==
    IF z <= 2 THEN Some(1)
    ELSE IF z <= 10 THEN Some(2)
    ELSE IF z <= 18 THEN Some(3)
    ELSE IF z <= 36 THEN Some(4)
    ELSE IF z <= 54 THEN Some(5)
    ELSE IF z <= 86 THEN Some(6)
    ELSE IF z <= 118 THEN Some(7)
    ELSE Null

\* fetch/pubchem.py, expr_period
fetch_expr_period(z) == cast_UInt8(fetch_period_before_cast(z))

\* fetch/pubchem.py, period_start
fetch_period_start(z) ==
    IF z <= 2 THEN 0
    ELSE IF z <= 10 THEN 2
    ELSE IF z <= 18 THEN 10
    ELSE IF z <= 36 THEN 18
    ELSE IF z <= 54 THEN 36
    ELSE IF z <= 86 THEN 54
    ELSE 86

\* fetch/pubchem.py, position_in_period
fetch_position_in_period(z) == z - fetch_period_start(z)

\* fetch/pubchem.py, expr_group before its cast: the branches in the order
\* of the source.
fetch_group_before_cast(z) ==
    LET pos == fetch_position_in_period(z) IN
    IF pos = 1 THEN Some(1)
    ELSE IF z = 2 THEN Some(18)
    ELSE IF pos = 2 THEN Some(2)
    ELSE IF z <= 10 /\ pos >= 3 THEN Some(pos + 10)
    ELSE IF z <= 18 /\ pos >= 3 THEN Some(pos + 10)
    ELSE IF z >= 58 /\ z <= 71 THEN Null
    ELSE IF z >= 90 /\ z <= 103 THEN Null
    ELSE IF z > 71 THEN Some(pos - 14)
    ELSE IF z > 103 THEN Some(pos - 14)
    ELSE Some(pos)

\* fetch/pubchem.py, expr_group
fetch_expr_group(z) == cast_UInt8(fetch_group_before_cast(z))

(***************************************************************************)
(* update/pdb.py: the update driver.                                       *)
(***************************************************************************)
\* basepath, the default of update.pdb.ccd
basepath == "pdb/ccd"

\* Path.with_suffix(suffix) on a path whose last component has no dot
with_suffix(path, suffix) == path \o suffix

\* A file name that joins the base path and the category with "_".
UpdateFilePathUnderscore(cat_name, variant_suffix) ==
    with_suffix(data_dir \o "/" \o basepath \o "_" \o cat_name \o "-" \o variant_suffix,
                ".parquet")

\* (dirpath / f"{basepath}-{cat_name}-{variant_suffix}").with_suffix(".parquet")
UpdateFilePath(cat_name, variant_suffix) ==
    with_suffix(data_dir \o "/" \o basepath \o "-" \o cat_name \o "-" \o variant_suffix,
                ".parquet")

\* The suffixes of the loop "for variant_suffix, cat_dfs in [...]".
VariantSuffixes == << "aa", "noaa" >>

\* The writes of update.pdb.ccd in order: all categories of the amino-acid
\* mapping, then all categories of the other mapping.
UpdateWrites(curated) ==
    LET n == Len(curated.order) IN
    [w \in 1..(2 * n) |->
        LET v == IF w <= n THEN 1 ELSE 2
            cat_name == curated.order[IF w <= n THEN w ELSE w - n]
        IN [filepath |-> UpdateFilePath(cat_name, VariantSuffixes[v]),
            df |-> IF v = 1 THEN curated.category_df_aa[cat_name]
                   ELSE curated.category_df_non_aa[cat_name]]]

\* A directory in which a write removes the files the run wrote before it.
AfterWritesDroppingEarlier(fs, ws, k) ==
    LET earlier == {ws[w].filepath : w \in 1..(k - 1)}
        written == {ws[w].filepath : w \in {k} \cap (1..k)}
    IN [p \in ((DOMAIN fs) \ earlier) \cup written |->
           IF p \in written THEN ws[k].df ELSE fs[p]]

\* The data directory after the first k writes of ws: each written path
\* holds the table of the last write to it.
AfterWrites(fs, ws, k) ==
    LET written == {ws[w].filepath : w \in 1..k}
        LastWrite(p) == CHOOSE w \in 1..k :
                           /\ ws[w].filepath = p
                           /\ \A v \in (w + 1)..k : ws[v].filepath # p
    IN [p \in DOMAIN fs \cup written |->
           IF p \in written THEN ws[LastWrite(p)].df ELSE fs[p]]

\* A driver that creates its first output file before it runs the curator.
update_pdb_ccd_open_first(fs, curated, fail, torn) ==
    IF ~ Returned(curated)
    THEN [res |-> curated,
          files |-> DictSet(fs, UpdateFilePath("chem_comp", "aa"), << >>)]
    ELSE
    LET ws == UpdateWrites(curated.value) IN
    IF fail = 0 \/ fail > Len(ws)
    THEN [res |-> Return([out |-> {ws[w].filepath : w \in 1..Len(ws)},
                          problems |-> curated.value.problems]),
          files |-> AfterWrites(fs, ws, Len(ws))]
    ELSE [res |-> Raise("OSError", [filepath |-> ws[fail].filepath]),
          files |-> IF torn
                    THEN DictSet(AfterWrites(fs, ws, fail - 1), ws[fail].filepath, TornFile)
                    ELSE AfterWrites(fs, ws, fail - 1)]

\* update.pdb.ccd(): curated is what create_pdb.ccd() returned or raised
\* (line 72); then one file is written per category and variant. fail = 0:
\* every write succeeds; fail = w: the w-th write raises, leaving its file
\* torn when torn holds and untouched otherwise.
update_pdb_ccd(fs, curated, fail, torn) ==
    IF ~ Returned(curated) THEN [res |-> curated, files |-> fs]
    ELSE
    LET ws == UpdateWrites(curated.value) IN
    IF fail = 0 \/ fail > Len(ws)
    THEN [res |-> Return([out |-> {ws[w].filepath : w \in 1..Len(ws)},
                          problems |-> curated.value.problems]),
          files |-> AfterWrites(fs, ws, Len(ws))]
    ELSE [res |-> Raise("OSError", [filepath |-> ws[fail].filepath]),
          files |-> IF torn
                    THEN DictSet(AfterWrites(fs, ws, fail - 1), ws[fail].filepath, TornFile)
                    ELSE AfterWrites(fs, ws, fail - 1)]

(***************************************************************************)
(* update/atom.py and update/__init__.py: the other update drivers.        *)
(***************************************************************************)
\* The import of scicoda.update.atom (lines 5-9): polars and dfhelp are
\* optional dependencies, and line 9 imports scicoda.create.atom.
import_update_atom(can_import) ==
    IF ~ can_import THEN Raise("ImportError", [name |-> "polars"])
    ELSE import_create_atom

\* The import of scicoda.update.pdb (lines 5-9).
import_update_pdb(can_import) ==
    IF ~ can_import THEN Raise("ImportError", [name |-> "dfhelp"])
    ELSE Return(None)

\* (Path(data_dir) / filepath).with_suffix(".parquet") for the default
\* filepath "atom/periodic_table.parquet"
PeriodicTableFilePath == data_dir \o "/" \o "atom/periodic_table" \o ".parquet"

\* update.atom.periodic_table(): the table is created (line 68), then
\* written (line 71); fail tells whether the write raises, leaving the file
\* torn when torn holds.
update_atom_periodic_table(fs, df, vdwr, fail, torn) ==
    LET created == periodic_table_body(df, vdwr) IN
    IF ~ Returned(created) THEN [res |-> created, files |-> fs, written |-> {}]
    ELSE IF fail
    THEN [res |-> Raise("OSError", [filepath |-> PeriodicTableFilePath]),
          files |-> IF torn THEN DictSet(fs, PeriodicTableFilePath, TornFile) ELSE fs,
          written |-> {}]
    ELSE [res |-> Return(PeriodicTableFilePath),
          files |-> DictSet(fs, PeriodicTableFilePath, created.value.rows),
          written |-> {PeriodicTableFilePath}]

\* update.update_all(): "from . import atom, pdb" (line 29), then
\* atom.update_all and pdb.update_all in the order of the dict display
\* (lines 33-36). written: the files the run wrote completely.
update_all(fs, can_import, df, vdwr, afail, curated, fail, torn) ==
    LET imp_atom == import_update_atom(can_import)
        imp_pdb == import_update_pdb(can_import)
    IN
    IF ~ Returned(imp_atom)
    THEN [res |-> imp_atom, files |-> fs, written |-> {}, reached_pdb |-> FALSE]
    ELSE IF ~ Returned(imp_pdb)
    THEN [res |-> imp_pdb, files |-> fs, written |-> {}, reached_pdb |-> FALSE]
    ELSE LET a == update_atom_periodic_table(fs, df, vdwr, afail, torn) IN
         IF ~ Returned(a.res)
         THEN [res |-> a.res, files |-> a.files, written |-> a.written,
               reached_pdb |-> FALSE]
         ELSE LET p == update_pdb_ccd(a.files, curated, fail, torn) IN
              [res |-> p.res, files |-> p.files,
               written |-> a.written \cup
                  (IF ~ Returned(curated) THEN {}
                   ELSE LET ws == UpdateWrites(curated.value) IN
                        {ws[w].filepath :
                           w \in 1..(IF fail = 0 \/ fail > Len(ws)
                                     THEN Len(ws) ELSE fail - 1)}),
               reached_pdb |-> TRUE]

(***************************************************************************)
(* pdb.py: the CCD accessor.                                               *)
(***************************************************************************)
\* _FILE_CATEGORY_NAME
FILE_CATEGORY_NAME == "pdb"

\* get_type_args(_CCD_CATEGORY_NAMES)
CCD_CATEGORY_NAMES ==
    { "chem_comp", "chem_comp_atom", "chem_comp_bond",
      "pdbx_chem_comp_atom_related", "pdbx_chem_comp_audit",
      "pdbx_chem_comp_descriptor", "pdbx_chem_comp_feature",
      "pdbx_chem_comp_identifier", "pdbx_chem_comp_pcm",
      "pdbx_chem_comp_related", "pdbx_chem_comp_synonyms" }

\* A check that accepts every category.
CheckCategoryLax(category) == Return(None)

\* The check of the category argument: the error raised, or None.
CheckCategory(category) ==
    IF category \notin CCD_CATEGORY_NAMES
    THEN ScicodaInputError("category", category,
                           {"CCD", "data", "category"} \cup CCD_CATEGORY_NAMES)
    ELSE Return(None)

\* f"ccd-{category}-{var}"
CcdFileName(category, var) == "ccd-" \o category \o "-" \o var

\* variants = ["aa", "non_aa"] if variant == "any" else [variant]
Variants(variant) == IF variant = "any" THEN << "aa", "non_aa" >> ELSE << variant >>

\* The list comprehension of the comp_id=None branch: data.get_file for the
\* variants from the i-th on; stops at the first call that raises.
RECURSIVE LoadVariants(_, _, _, _, _)
LoadVariants(fs, category, variants, i, acc) ==
    IF i > Len(variants) \/ ~ Returned(acc.res) THEN acc
    ELSE LET r == get_file(fs, acc.cache, acc.nextId, FILE_CATEGORY_NAME,
                           CcdFileName(category, variants[i]), "parquet",
                           FALSE, TRUE)
         IN LoadVariants(fs, category, variants, i + 1,
               [res |-> IF Returned(r.res) THEN acc.res ELSE r.res,
                dfs |-> IF Returned(r.res) THEN Append(acc.dfs, r.res.value) ELSE acc.dfs,
                cache |-> r.cache,
                nextId |-> IF r.loaded THEN acc.nextId + 1 ELSE acc.nextId,
                trace |-> Append(acc.trace, "get_file")])

\* pl.concat(dfs, how="vertical"): a new table with the rows of all.
RECURSIVE ConcatData(_, _)
ConcatData(dfs, i) ==
    IF i > Len(dfs) THEN << >> ELSE dfs[i].data \o ConcatData(dfs, i + 1)

\* [cid.lower() for cid in comp_id]
LowerAll(comp_id) == {Lower(comp_id[i]) : i \in 1..Len(comp_id)}

\* df.is_empty()
is_empty(df) == Len(df.data) = 0

\* The loop of the comp_id branch (lines 281-293) from the i-th variant on:
\* data.get_file(..., filterby=filterby) per variant, returning the first
\* table that is not empty, else the last one. acc.df starts as
\* pl.DataFrame().
RECURSIVE FilterVariants(_, _, _, _, _)
FilterVariants(fs, category, variants, i, acc) ==
    IF i > Len(variants) THEN [acc EXCEPT !.res = Return(acc.df)]
    ELSE LET r == call_get_file(fs, acc.cache, acc.nextId, FILE_CATEGORY_NAME,
                                CcdFileName(category, variants[i]), "parquet",
                                {"category", "name", "extension", "filterby"})
             next == [acc EXCEPT !.cache = r.cache,
                                 !.nextId = IF r.loaded THEN acc.nextId + 1
                                            ELSE acc.nextId,
                                 !.trace = Append(acc.trace, "get_file")]
         IN IF ~ Returned(r.res) THEN [next EXCEPT !.res = r.res]
            ELSE IF ~ is_empty(r.res.value)
            THEN [next EXCEPT !.res = r.res, !.df = r.res.value]
            ELSE FilterVariants(fs, category, variants, i + 1,
                                [next EXCEPT !.df = r.res.value])

\* The part of pdb.ccd after the data files are known to exist (or were
\* generated): from "variants = ..." to the end.
ccd_read(fs, c, id, comp_id, category, variant) ==
    LET variants == Variants(variant) IN
    IF comp_id = None
    THEN LET l == LoadVariants(fs, category, variants, 1,
                     [res |-> Return(None), dfs |-> << >>, cache |-> c,
                      nextId |-> id, trace |-> << >>])
         IN IF ~ Returned(l.res) THEN [l EXCEPT !.dfs = << >>]
            ELSE [l EXCEPT !.res = Return([id |-> l.nextId, kind |-> "DataFrame",
                                           data |-> ConcatData(l.dfs, 1)]),
                           !.nextId = l.nextId + 1,
                           !.dfs = << >>]
    ELSE LET l == FilterVariants(fs, category, variants, 1,
                     [res |-> Return(None), cache |-> c, nextId |-> id + 1,
                      trace |-> << >>,
                      df |-> [id |-> id, kind |-> "DataFrame", data |-> << >>]])
         \* the table of line 279 is garbage when the call raises
         IN [res |-> l.res, dfs |-> << >>, cache |-> l.cache,
             nextId |-> IF Returned(l.res) THEN l.nextId ELSE l.nextId - 1,
             trace |-> l.trace]

\* An import whose ImportError is not translated.
TryImportRaw(can_import) ==
    IF ~ can_import THEN Raise("ImportError", [module |-> "scicoda.update.pdb"])
    ELSE Return(None)

\* try: from scicoda.update.pdb import ccd; except ImportError: raise
\* ScicodaMissingDependencyError(...) from ie
TryImport(can_import) ==
    IF ~ can_import THEN ScicodaMissingDependencyError ELSE Return(None)

\* pdb.ccd(comp_id, category, variant). curated, fail and torn decide what a
\* run of the update pipeline does, when the call makes one.
pdb_ccd(fs, c, id, can_import, comp_id, category, variant, curated, fail, torn) ==
    LET chk == CheckCategory(category)
        unchanged == [files |-> fs, cache |-> c, nextId |-> id, ran |-> FALSE,
                      ran_ok |-> FALSE]
        present == get_filepath(fs, FILE_CATEGORY_NAME, "ccd-chem_comp-aa", "parquet")
        imp == TryImport(can_import)
    IN
    IF ~ Returned(chk)
    THEN unchanged @@ [res |-> chk, trace |-> << >>]
    ELSE IF Returned(present)
    THEN LET r == ccd_read(fs, c, id, comp_id, category, variant) IN
         [files |-> fs, cache |-> r.cache, nextId |-> r.nextId, ran |-> FALSE,
          ran_ok |-> FALSE, res |-> r.res, trace |-> << "get_filepath" >> \o r.trace]
    ELSE IF ~ Returned(imp)
    THEN unchanged @@ [res |-> imp, trace |-> << "get_filepath", "import" >>]
    ELSE LET u == update_pdb_ccd(fs, curated, fail, torn) IN
         IF ~ Returned(u.res)
         THEN [files |-> u.files, cache |-> c, nextId |-> id, ran |-> TRUE,
               ran_ok |-> FALSE, res |-> u.res,
               trace |-> << "get_filepath", "import", "update" >>]
         ELSE LET r == ccd_read(u.files, c, id, comp_id, category, variant) IN
              [files |-> u.files, cache |-> r.cache, nextId |-> r.nextId,
               ran |-> TRUE, ran_ok |-> TRUE, res |-> r.res,
               trace |-> << "get_filepath", "import", "update" >> \o r.trace]

(***************************************************************************)
(* The environment: what the data directory may hold at start.             *)
(***************************************************************************)
\* Stored contents: a JSON array of records or a table, as a sequence of rows.
AutodockJson == << [type |-> "A", element |-> "C"], [type |-> "HD", element |-> "H"] >>
PeriodicTable == << [z |-> 1, symbol |-> "H"], [z |-> 2, symbol |-> "He"] >>
StrayText == << >>

\* The bundled file, and files that may or may not be there.
BundledFiles == { FilePath("atom", "autodock_atom_types", "json") }
OptionalFiles == { FilePath("atom", "periodic_table", "parquet"),
                   FilePath("atom", "autodock_atom_types", "txt") }

InitialContent(p) ==
    IF p = FilePath("atom", "autodock_atom_types", "json") THEN AutodockJson
    ELSE IF p = FilePath("atom", "periodic_table", "parquet") THEN PeriodicTable
    ELSE StrayText

\* Arguments the callers of data.get_filepath / data.get_file pass.
FileKeys == { <<"atom", "autodock_atom_types">>, <<"atom", "periodic_table">>,
              <<"nonexistent_category", "some_file">> }
Extensions == { "json", "parquet", "txt" }

\* Rows of the fetched CCD dictionaries.
CompRow(block, id, name) == ("_block" :> block) @@ [id |-> id, name |-> name]
BondRow(block, comp_id, a1, a2) ==
    ("_block" :> block) @@ [comp_id |-> comp_id, atom_id_1 |-> a1, atom_id_2 |-> a2,
                            value_order |-> "sing"]

\* What pdbapi.file.ccd returns for the two variants. Every CCD data block
\* has a chem_comp category, so the main dictionary always holds one.
CcdSources ==
    { \* both dictionaries fetched and consistent
      [fetched |-> TRUE,
       main |-> << [name |-> "chem_comp",
                    df |-> << CompRow("ATP", "ATP", "adenosine"),
                              CompRow("ALA", "ALA", "alanine") >>,
                    errors |-> << >>],
                   [name |-> "chem_comp_bond",
                    df |-> << BondRow("ATP", "ATP", "O1", "C1") >>,
                    errors |-> << >>] >>,
       protonation |-> << [name |-> "chem_comp",
                           df |-> << CompRow("ALA", "ALA", "alanine") >>,
                           errors |-> << >>] >>],
      \* a block code that differs from the component id
      [fetched |-> TRUE,
       main |-> << [name |-> "chem_comp",
                    df |-> << CompRow("ATP", "ADP", "adenosine") >>,
                    errors |-> << >>] >>,
       protonation |-> << >>],
      \* the download fails
      [fetched |-> FALSE, main |-> << >>, protonation |-> << >>] }

\* What create_pdb.ccd() returns or raises on each of the sources.
Curated == { create_pdb_ccd(s) : s \in CcdSources }

\* The number of files update.pdb.ccd writes after a curator run.
WriteCount(curated) ==
    IF Returned(curated) THEN 2 * Len(curated.value.order) ELSE 0

\* What a run of the update pipeline meets: the curator's result, and which
\* write fails (0: none), leaving its file torn or untouched.
UpdateOutcomes ==
    UNION { { [curated |-> cur, fail |-> 0, torn |-> FALSE] }
            \cup { [curated |-> cur, fail |-> f, torn |-> t] :
                      f \in 1..WriteCount(cur), t \in BOOLEAN } : cur \in Curated }

\* The outcome paired with a call that does not run the pipeline.
NoOutcome == CHOOSE o \in UpdateOutcomes : TRUE

\* Arguments the callers of pdb.ccd pass.
CompIdArgs == { None, [id |-> 0, kind |-> "list", data |-> << "ALA" >>] }
CategoryArgs == { "chem_comp", "chem_comp_bond", "invalid_category" }
VariantArgs == { "aa", "non_aa", "any" }

\* The symbols a filterby expression pl.col("symbol").is_in(...) keeps.
FilterArgs == { {"H"}, {"H", "He"}, {"C"} }

(***************************************************************************)
(* The periodic table PubChem serves.                                      *)
(***************************************************************************)
\* The atomic numbers of the PubChem table.
AtomicNumbers == 1..118

\* The GroupBlock cell of the PubChem table for an atomic number.
GroupBlock(z) ==
    IF z \in {2, 10, 18, 36, 54, 86, 118} THEN "Noble gas"
    ELSE IF z \in {1, 6, 7, 8, 15, 16, 34} THEN "Nonmetal"
    ELSE IF z \in {3, 11, 19, 37, 55, 87} THEN "Alkali metal"
    ELSE IF z \in {4, 12, 20, 38, 56, 88} THEN "Alkaline earth metal"
    ELSE IF z \in {5, 14, 32, 33, 51, 52} THEN "Metalloid"
    ELSE IF z \in {9, 17, 35, 53, 85, 117} THEN "Halogen"
    ELSE IF z \in {13, 31, 49, 50} \cup (81..84) \cup (113..116)
    THEN "Post-transition metal"
    ELSE IF z \in 57..71 THEN "Lanthanide"
    ELSE IF z \in 89..103 THEN "Actinide"
    ELSE "Transition metal"

\* str.to_lowercase() on the GroupBlock cells (expr_group_block).
to_lowercase ==
    [x \in {GroupBlock(z) : z \in AtomicNumbers} |->
        CASE x = "Noble gas" -> "noble gas"
          [] x = "Nonmetal" -> "nonmetal"
          [] x = "Alkali metal" -> "alkali metal"
          [] x = "Alkaline earth metal" -> "alkaline earth metal"
          [] x = "Metalloid" -> "metalloid"
          [] x = "Halogen" -> "halogen"
          [] x = "Post-transition metal" -> "post-transition metal"
          [] x = "Lanthanide" -> "lanthanide"
          [] x = "Actinide" -> "actinide"
          [] x = "Transition metal" -> "transition metal"]

\* The row of the PubChem table for an atomic number; the cells the model
\* does not look into are named by their column and element.
RawRow(z) ==
    [c \in RawColumns |->
        IF c = "AtomicNumber" THEN z
        ELSE IF c = "GroupBlock" THEN << GroupBlock(z) >>
        ELSE << c, z >>]

\* The orders in which the rows arrive.
RowOrders == { "ascending", "descending", "scattered" }

\* The table pl.read_csv returns: one row per element, in the given order.
RawTable(order) ==
    [i \in AtomicNumbers |->
        RawRow(IF order = "ascending" THEN i
               ELSE IF order = "descending" THEN 119 - i
               ELSE ((7 * i) % 118) + 1)]

\* The list of Blue Obelisk radii, one per element.
BlueObeliskRadii == [i \in AtomicNumbers |-> << "radius", i >>]

\* A cell no call has filled yet.
Pending == << >>

NoCall == [op |-> "none"]

\* Threads that call data.get_file, and the frame of a thread outside a call.
Threads == { 1, 2 }
Idle == [pc |-> "idle"]

Init ==
    /\ \E opt \in SUBSET OptionalFiles :
          files = [p \in BundledFiles \cup opt |-> InitialContent(p)]
    /\ cache = EmptyDict
    /\ nextId = 1
    /\ importable \in BOOLEAN
    /\ runs = 0
    /\ last = NoCall
    /\ threads = [t \in Threads |-> Idle]

(***************************************************************************)
(* Public calls.                                                           *)
(***************************************************************************)
\* A call of data.get_filepath(category, name, extension).
GetFilepath ==
    /\ \E key \in FileKeys, extension \in Extensions :
          last' = [op |-> "get_filepath", category |-> key[1], name |-> key[2],
                   extension |-> extension,
                   res |-> get_filepath(files, key[1], key[2], extension)]
    /\ UNCHANGED <<files, cache, nextId, importable, runs, threads>>

\* A call of data.get_file(category, name, extension, lazy=..., cache=...).
GetFile ==
    /\ \E key \in FileKeys, extension \in Extensions, lazy \in BOOLEAN,
          cacheFlag \in BOOLEAN :
          \E r \in { get_file(files, cache, nextId, key[1], key[2], extension,
                            lazy, cacheFlag) } :
          /\ r.loaded => nextId <= MaxLoads
          /\ cache' = r.cache
          /\ nextId' = IF r.loaded THEN nextId + 1 ELSE nextId
          /\ last' = [op |-> "get_file", category |-> key[1], name |-> key[2],
                      extension |-> extension, lazy |-> lazy,
                      cacheFlag |-> cacheFlag, res |-> r.res]
    /\ UNCHANGED <<files, importable, runs, threads>>

\* A call data.get_file(category, name, extension="parquet", filterby=...),
\* as pdb.ccd (lines 283-288) and its callers make it; filterby keeps the
\* rows whose symbol is in the given set.
GetFileFilterby ==
    /\ \E key \in FileKeys, filterby \in FilterArgs :
          \E r \in { call_get_file(files, cache, nextId, key[1], key[2], "parquet",
                                 {"extension", "filterby"}) } :
          /\ r.loaded => nextId <= MaxLoads
          /\ cache' = r.cache
          /\ nextId' = IF r.loaded THEN nextId + 1 ELSE nextId
          /\ last' = [op |-> "get_file(filterby)", category |-> key[1],
                      name |-> key[2], extension |-> "parquet",
                      filterby |-> filterby, res |-> r.res]
    /\ UNCHANGED <<files, importable, runs, threads>>

\* A call of pdb.ccd(comp_id, category, variant). The outcome o of the update
\* pipeline is drawn only by a call that runs the pipeline.
PdbCcd ==
    \E comp_id \in CompIdArgs, category \in CategoryArgs, variant \in VariantArgs,
       o \in UpdateOutcomes :
          \E r \in { pdb_ccd(files, cache, nextId, importable, comp_id, category,
                           variant, o.curated, o.fail, o.torn) } :
          /\ r.ran \/ o = NoOutcome
          /\ r.ran => runs < MaxRuns
          /\ r.nextId - 1 <= MaxLoads
          /\ files' = r.files
          /\ cache' = r.cache
          /\ nextId' = r.nextId
          /\ runs' = IF r.ran THEN runs + 1 ELSE runs
          /\ last' = [op |-> "pdb.ccd", comp_id |-> comp_id, category |-> category,
                      variant |-> variant, res |-> r.res, trace |-> r.trace,
                      ran |-> r.ran, ran_ok |-> r.ran_ok]
          /\ UNCHANGED <<importable, threads>>

\* A call of update.pdb.ccd() by a maintainer; it needs the optional
\* dependencies.
UpdatePdbCcd ==
    /\ importable
    /\ runs < MaxRuns
    /\ \E o \in UpdateOutcomes :
          \E u \in { update_pdb_ccd(files, o.curated, o.fail, o.torn) } :
          /\ files' = u.files
          /\ last' = [op |-> "update.pdb.ccd", res |-> u.res,
                      curated |-> o.curated,
                      categories |-> IF Returned(o.curated)
                                     THEN o.curated.value.order ELSE << >>]
    /\ runs' = runs + 1
    /\ UNCHANGED <<cache, nextId, importable, threads>>

\* A call of update.update_all() by a maintainer, while PubChem serves its
\* table in some row order. The outcome of the CCD pipeline is drawn only by
\* a call that gets to it.
UpdateAll ==
    /\ \E order \in RowOrders, afail \in BOOLEAN, o \in UpdateOutcomes :
          \E u \in { update_all(files, importable, RawTable(order), BlueObeliskRadii,
                                afail, o.curated, o.fail, o.torn) } :
          /\ u.reached_pdb \/ (o = NoOutcome /\ ~ afail /\ order = "ascending")
          /\ files' = u.files
          /\ last' = [op |-> "update_all", res |-> u.res, written |-> u.written]
    /\ UNCHANGED <<cache, nextId, importable, runs, threads>>

\* The Category Table Store and the Cached Loader, called directly.
Next ==
    \/ GetFilepath
    \/ GetFile
    \/ GetFileFilterby

Spec == Init /\ [][Next]_vars

\* The CCD accessor and the update driver, on the bundled data directory.
InitCcd ==
    /\ files = [p \in BundledFiles |-> InitialContent(p)]
    /\ cache = EmptyDict
    /\ nextId = 1
    /\ importable \in BOOLEAN
    /\ runs = 0
    /\ last = NoCall
    /\ threads = [t \in Threads |-> Idle]

NextCcd ==
    \/ PdbCcd
    \/ UpdatePdbCcd
    \/ UpdateAll

SpecCcd == InitCcd /\ [][NextCcd]_vars

(***************************************************************************)
(* data.get_file run by several threads: the interpreter may switch        *)
(* threads between the cache lookup (line 85), the file lookup and read    *)
(* (lines 87-97) and the cache insertion (lines 98-99).                    *)
(***************************************************************************)
ThreadKeys == { <<"atom", "autodock_atom_types">>, <<"atom", "periodic_table">> }
ThreadExtensions == { "json", "parquet" }

\* The frame of a thread whose call has ended with res.
Done(frame, res) == [frame EXCEPT !.pc = "done", !.res = res]

\* Thread t calls get_file and runs line 85-86: the cache lookup.
TLookup(t) ==
    /\ threads[t].pc \in {"idle", "done"}
    /\ \E key \in ThreadKeys, extension \in ThreadExtensions, cacheFlag \in BOOLEAN :
          LET frame == [pc |-> "load", category |-> key[1], name |-> key[2],
                        extension |-> extension, lazy |-> FALSE,
                        cacheFlag |-> cacheFlag, file |-> None, res |-> Return(None)]
              cached == CacheGet(cache, key[1], key[2])
          IN threads' = [threads EXCEPT ![t] =
                            IF cached # None THEN Done(frame, Return(cached)) ELSE frame]
    /\ UNCHANGED <<files, cache, nextId, importable, runs, last>>

\* Thread t runs lines 87-97: the file lookup and the read.
TLoad(t) ==
    /\ threads[t].pc = "load"
    /\ LET f == threads[t]
           fp == get_filepath(files, f.category, f.name, f.extension)
       IN IF ~ Returned(fp)
          THEN /\ threads' = [threads EXCEPT ![t] = Done(f, fp)]
               /\ UNCHANGED nextId
          ELSE LET file == ReadFile(files, fp.value, f.extension, f.lazy, nextId) IN
               IF ~ Returned(file)
               THEN /\ threads' = [threads EXCEPT ![t] = Done(f, file)]
                    /\ UNCHANGED nextId
               ELSE /\ nextId <= MaxLoads
                    /\ threads' = [threads EXCEPT ![t] =
                                      [f EXCEPT !.pc = "store", !.file = file.value]]
                    /\ nextId' = nextId + 1
    /\ UNCHANGED <<files, cache, importable, runs, last>>

\* Thread t runs lines 98-100: the cache insertion and the return.
TStore(t) ==
    /\ threads[t].pc = "store"
    /\ LET f == threads[t] IN
       /\ cache' = StoreLoaded(cache, f.category, f.name, f.file, f.cacheFlag)
       /\ threads' = [threads EXCEPT ![t] = Done(f, Return(f.file))]
    /\ UNCHANGED <<files, nextId, importable, runs, last>>

NextThreads == \E t \in Threads : TLookup(t) \/ TLoad(t) \/ TStore(t)

SpecThreads == Init /\ [][NextThreads]_vars

(***************************************************************************)
(* create.pdb.ccd on fetched dictionaries. A dictionary is the sequence of *)
(* its categories; the table of a category is cat.df as the validator      *)
(* leaves it (cast, with the ESD columns it splits off), with the _block   *)
(* column still in place; errors is what validator.validate returns.       *)
(***************************************************************************)
Cat(name, df, errors) == [name |-> name, df |-> df, errors |-> errors]

\* The tables of 1..MaxRows rows over a pool of rows.
TablesOver(pool) == UNION { [1..n -> pool] : n \in 1..MaxRows }

\* A bond row, with the ESD column of its distance when esd holds.
BondRowEsd(block, comp_id, a1, a2, esd) ==
    IF esd THEN BondRow(block, comp_id, a1, a2) @@ ("value_dist_esd_digits" :> "2")
    ELSE BondRow(block, comp_id, a1, a2)

\* A row of pdbx_chem_comp_audit, a category without fixed identity columns.
AuditRow(block, comp_id, action_type) ==
    ("_block" :> block) @@ [comp_id |-> comp_id, action_type |-> action_type]

\* chem_comp of the main dictionary: components, one of them under two names.
MainCompTables ==
    TablesOver({ CompRow("ATP", "ATP", "adenosine"),
                 CompRow("ATP", "ATP", "adenosine triphosphate"),
                 CompRow("ALA", "ALA", "alanine") })

\* chem_comp of the protonation dictionary (<< >>: the category is absent):
\* agreeing with the main dictionary, differing from it, repeated, with a
\* block code in another letter case, and with a block code of another
\* component.
ProtCompTables ==
    { << >>,
      << CompRow("ALA", "ALA", "alanine") >>,
      << CompRow("ALA", "ALA", "alanine zwitterion") >>,
      << CompRow("ALA", "ALA", "alanine"), CompRow("ALA", "ALA", "alanine zwitterion") >>,
      << CompRow("Ala", "ALA", "alanine") >>,
      << CompRow("ALA", "ALX", "alanine") >> }

\* chem_comp_bond of the main dictionary (<< >>: the category is absent):
\* one bond in either atom order, in both, and repeated.
MainBondTables(esd) ==
    LET oc == BondRowEsd("ATP", "ATP", "O1", "C1", esd)
        co == BondRowEsd("ATP", "ATP", "C1", "O1", esd)
    IN { << >>, << oc >>, << co >>, << oc, co >>, << oc, oc >> }

\* The other categories of the protonation dictionary.
ProtOtherCategories(esd) ==
    { << >>,
      << Cat("chem_comp_bond", << BondRowEsd("ALA", "ALA", "N1", "C1", esd) >>, << >>) >>,
      << Cat("chem_comp_bond", << BondRowEsd("ALA", "ATP", "N1", "C1", esd) >>, << >>) >>,
      << Cat("pdbx_chem_comp_audit",
             << AuditRow("ALA", "ALA", "Create component"),
                AuditRow("ALA", "ALA", "Create component") >>, << >>) >> }

\* What validator.validate reports for a chem_comp table.
ValidationErrors == << [type |-> "enum", column |-> "name", row |-> 1] >>

\* The two dictionaries built from the choices above; err names the variant
\* whose chem_comp table fails validation.
CuratorSource(mc, pc, mb, other, err) ==
    [fetched |-> TRUE,
     main |-> << Cat("chem_comp", mc,
                     IF err = "main" THEN ValidationErrors ELSE << >>) >>
              \o (IF mb = << >> THEN << >> ELSE << Cat("chem_comp_bond", mb, << >>) >>),
     protonation |->
        (IF pc = << >> THEN << >>
         ELSE << Cat("chem_comp", pc,
                     IF err = "protonation" THEN ValidationErrors ELSE << >>) >>)
        \o other]

\* The locals of a run that raised before its return statement.
NoLocals == [raised |-> TRUE]

\* The dictionaries pdbapi.file.ccd will return to a run of the curator, on
\* an installation that has the optional dependencies. The validator splits
\* the ESD digits off in both dictionaries or in none.
InitCurator ==
    /\ files = [p \in BundledFiles |-> InitialContent(p)]
    /\ cache = EmptyDict
    /\ nextId = 1
    /\ importable = TRUE
    /\ runs = 0
    /\ \E esd \in BOOLEAN, err \in {"none", "main", "protonation"} :
       \E mc \in MainCompTables, pc \in ProtCompTables,
          mb \in MainBondTables(esd), other \in ProtOtherCategories(esd) :
          last = [op |-> "fetch", source |-> CuratorSource(mc, pc, mb, other, err)]
    /\ threads = [t \in Threads |-> Idle]

\* The call create.pdb.ccd(): its result, and its locals at the return.
CreatePdbCcd ==
    /\ last.op = "fetch"
    /\ \E both \in { ccd_read_variants(last.source) } :
          last' = [op |-> "create.pdb.ccd", source |-> last.source,
                   res |-> create_pdb_ccd(last.source),
                   locals |-> IF both.raised THEN NoLocals
                              ELSE ccd_locals(both) @@ [raised |-> FALSE]]
    /\ UNCHANGED <<files, cache, nextId, importable, runs, threads>>

NextCurator == CreatePdbCcd

SpecCurator == InitCurator /\ [][NextCurator]_vars

(***************************************************************************)
(* The calls on the periodic table (SpecAtom).                             *)
(***************************************************************************)
\* The PubChem table arrives in some row order; z is the element whose
\* derived columns are looked at.
InitAtom ==
    /\ files = [p \in BundledFiles |-> InitialContent(p)]
    /\ cache = EmptyDict
    /\ nextId = 1
    /\ importable = TRUE
    /\ runs = 0
    /\ threads = [t \in Threads |-> Idle]
    /\ \E z \in AtomicNumbers, order \in RowOrders :
          last = [op |-> "atom", z |-> z, order |-> order,
                  create_columns |-> Pending, fetch_columns |-> Pending,
                  create_table |-> Pending]

\* The column expressions of create/atom.py evaluated on the row of z.
CreateAtomColumns ==
    /\ last.op = "atom"
    /\ last.create_columns = Pending
    /\ last' = [last EXCEPT !.create_columns =
                  << [block |-> to_lowercase[RawRow(last.z)["GroupBlock"][1]],
                      period |-> expr_period(RawRow(last.z)["AtomicNumber"]),
                      group_before_cast |->
                          group_before_cast(RawRow(last.z)["AtomicNumber"]),
                      group |-> expr_group(RawRow(last.z)["AtomicNumber"])] >>]
    /\ UNCHANGED <<files, cache, nextId, importable, runs, threads>>

\* The column expressions of fetch/pubchem.py evaluated on the row of z.
FetchPubchemColumns ==
    /\ last.op = "atom"
    /\ last.fetch_columns = Pending
    /\ last' = [last EXCEPT !.fetch_columns =
                  << [block |-> to_lowercase[RawRow(last.z)["GroupBlock"][1]],
                      period |-> fetch_expr_period(RawRow(last.z)["AtomicNumber"]),
                      group_before_cast |->
                          fetch_group_before_cast(RawRow(last.z)["AtomicNumber"]),
                      group |-> fetch_expr_group(RawRow(last.z)["AtomicNumber"])] >>]
    /\ UNCHANGED <<files, cache, nextId, importable, runs, threads>>

\* A call create.atom.periodic_table() on the PubChem table.
CreateAtomPeriodicTable ==
    /\ last.op = "atom"
    /\ last.create_table = Pending
    /\ last' = [last EXCEPT !.create_table =
                  << create_atom_periodic_table(RawTable(last.order),
                                                BlueObeliskRadii) >>]
    /\ UNCHANGED <<files, cache, nextId, importable, runs, threads>>

NextAtom ==
    \/ CreateAtomColumns
    \/ FetchPubchemColumns
    \/ CreateAtomPeriodicTable

SpecAtom == InitAtom /\ [][NextAtom]_vars

(***************************************************************************)
(* Properties of the Category Table Store and the Cached Loader (Spec).    *)
(***************************************************************************)
\* The last call was data.get_file / data.get_filepath.
IsGetFile(l) == l.op = "get_file"
IsGetFilepath(l) == l.op = "get_filepath"

\* The cache entry of (category, name) in the current state, None without one.
Entry(category, name) ==
    IF category \in DOMAIN cache /\ name \in DOMAIN cache[category]
    THEN cache[category][name]
    ELSE None

\* After a get_file call with cache=True that succeeded, the object returned
\* is the cache entry of its key; a get_file call whose key has an entry
\* returned exactly that entry, whatever its other arguments.
C1_ReturnsEntry ==
    IsGetFile(last) =>
        LET entry == Entry(last.category, last.name) IN
        /\ (Returned(last.res) /\ last.cacheFlag) => entry = last.res.value
        /\ entry # None => last.res = Return(entry)
\* A step neither replaces nor removes a cache entry.
C1_EntryKept ==
    \A category \in DOMAIN cache : \A name \in DOMAIN cache[category] :
        /\ category \in DOMAIN cache'
        /\ name \in DOMAIN cache'[category]
        /\ cache'[category][name] = cache[category][name]

\* C1: once a get_file call with cache=True has succeeded, every later
\* get_file call with the same (category, name) returns the identical object:
\* the object is the cache entry of the key, a call whose key has an entry
\* returns that entry, and no entry is ever replaced or removed.
C1_CachedObjectIsStable == [] C1_ReturnsEntry /\ [][C1_EntryKept]_vars

\* C1 witness: a get_file call returned the cached object of its key after
\* other objects had been loaded since, under arguments that ask for another
\* kind of object than the one cached.
C1_Witness ==
    /\ IsGetFile(last)
    /\ Returned(last.res)
    /\ last.res.value = Entry(last.category, last.name)
    /\ last.res.value.id + 1 < nextId
    /\ last.extension = "parquet"
    /\ last.res.value.kind = "json"

\* C2: a get_file call with cache=False leaves the cache mapping as it was.
C2_NoCacheFlagLeavesCache ==
    [][(IsGetFile(last') /\ ~ last'.cacheFlag) => cache' = cache]_vars

\* C2 witness: a get_file call with cache=False loaded a file, and its key has
\* no cache entry although other keys have.
C2_Witness ==
    /\ IsGetFile(last)
    /\ ~ last.cacheFlag
    /\ Returned(last.res)
    /\ last.res.value.id + 1 = nextId
    /\ Entry(last.category, last.name) = None
    /\ cache # EmptyDict

\* The answer of the last get_filepath call: the path when a file is there,
\* else ScicodaFileNotFoundError with the request and the computed path.
C4_Answer ==
    IsGetFilepath(last) =>
        LET path == data_dir \o "/" \o last.category \o "/" \o last.name
                    \o "." \o last.extension
        IN IF path \in DOMAIN files
           THEN last.res = Return(path)
           ELSE /\ Raised(last.res, "ScicodaFileNotFoundError")
                /\ last.res.info.category = last.category
                /\ last.res.info.name = last.name
                /\ last.res.info.filepath = path

\* C4: get_filepath returns {data_root}/{category}/{name}.{extension} exactly
\* when a file is there, otherwise raises ScicodaFileNotFoundError carrying
\* the requested category and name and the computed path; it changes no state.
C4_GetFilepath ==
    /\ [] C4_Answer
    /\ [][IsGetFilepath(last') => UNCHANGED <<files, cache, nextId>>]_vars

\* C4 witness: get_filepath raised for a category directory that does not
\* exist, while the cache holds an entry that the call left alone.
C4_Witness ==
    /\ IsGetFilepath(last)
    /\ last.category = "nonexistent_category"
    /\ Raised(last.res, "ScicodaFileNotFoundError")
    /\ cache # EmptyDict

\* The extensions get_file supports.
Supported == { "json", "parquet" }

\* C5 as stated: get_file with an unsupported extension raises
\* ScicodaInputError for the parameter extension.
C5_AsStated ==
    (IsGetFile(last) /\ last.extension \notin Supported) =>
        /\ Raised(last.res, "ScicodaInputError")
        /\ last.res.info.parameter = "extension"
        /\ last.res.info.argument = last.extension

\* C5 amended: get_file with an unsupported extension returns the cached
\* object when (category, name) has a cache entry; otherwise it raises
\* ScicodaFileNotFoundError when no file {name}.{extension} exists, and
\* ScicodaInputError (parameter extension, argument the extension) when the
\* file exists. The call leaves the cache as it was, so the entry is read
\* after the call.
C5_UnsupportedExtension ==
    (IsGetFile(last) /\ last.extension \notin Supported) =>
        LET entry == Entry(last.category, last.name)
            path == FilePath(last.category, last.name, last.extension)
        IN IF entry # None THEN last.res = Return(entry)
           ELSE IF path \notin DOMAIN files
           THEN Raised(last.res, "ScicodaFileNotFoundError")
           ELSE /\ Raised(last.res, "ScicodaInputError")
                /\ last.res.info.parameter = "extension"
                /\ last.res.info.argument = last.extension

\* C5 witness: get_file raised ScicodaInputError for an unsupported extension
\* whose file exists.
C5_Witness ==
    /\ IsGetFile(last)
    /\ last.extension \notin Supported
    /\ FilePath(last.category, last.name, last.extension) \in DOMAIN files
    /\ Raised(last.res, "ScicodaInputError")

(***************************************************************************)
(* Properties of data.get_file under threads (SpecThreads).                *)
(***************************************************************************)
\* C3: threads that call get_file(cache=True) for the same (category, name)
\* all receive the same object (the file is loaded once for the key).
C3_AsStated ==
    \A t1 \in Threads, t2 \in Threads :
        LET f1 == threads[t1]
            f2 == threads[t2]
        IN (/\ f1.pc = "done" /\ f2.pc = "done"
            /\ f1.category = f2.category /\ f1.name = f2.name
            /\ f1.cacheFlag /\ f2.cacheFlag
            /\ Returned(f1.res) /\ Returned(f2.res))
           => f1.res.value = f2.res.value

(***************************************************************************)
(* Properties of the CCD accessor and the update driver (SpecCcd).         *)
(***************************************************************************)
IsPdbCcd(l) == l.op = "pdb.ccd"
IsUpdate(l) == l.op = "update.pdb.ccd"

\* The file whose presence pdb.ccd takes for "the CCD data exists".
Sentinel == "data/pdb/ccd-chem_comp-aa.parquet"

\* The eleven CCD category names.
C6_Enumeration ==
    { "chem_comp", "chem_comp_atom", "chem_comp_bond",
      "pdbx_chem_comp_atom_related", "pdbx_chem_comp_audit",
      "pdbx_chem_comp_descriptor", "pdbx_chem_comp_feature",
      "pdbx_chem_comp_identifier", "pdbx_chem_comp_pcm",
      "pdbx_chem_comp_related", "pdbx_chem_comp_synonyms" }

\* The category check accepts exactly the eleven names, and the last pdb.ccd
\* call answered an invalid category with ScicodaInputError before any effect.
C6_Answer ==
    /\ Cardinality(C6_Enumeration) = 11
    /\ \A c \in C6_Enumeration : Returned(CheckCategory(c))
    /\ \A c \in {"invalid_category", "", "CHEM_COMP", "chem_comp_"} :
          Raised(CheckCategory(c), "ScicodaInputError")
    /\ IsPdbCcd(last) =>
          IF last.category \notin C6_Enumeration
          THEN /\ Raised(last.res, "ScicodaInputError")
               /\ last.res.info.parameter = "category"
               /\ "category" \in last.res.info.mentions
               /\ last.trace = << >>
               /\ ~ last.ran
          ELSE ~ (/\ Raised(last.res, "ScicodaInputError")
                  /\ last.res.info.parameter = "category")

\* C6: pdb.ccd with a category outside the eleven names raises
\* ScicodaInputError naming the parameter category before any file check,
\* update run or cache access (no effect is traced, no state changes); with a
\* category inside the enumeration it raises no ScicodaInputError about
\* category.
C6_InvalidCategory ==
    /\ [] C6_Answer
    /\ [][(IsPdbCcd(last') /\ last'.category \notin C6_Enumeration)
            => UNCHANGED <<files, cache, nextId, runs>>]_vars

\* C6 witness: pdb.ccd rejected an invalid category in a state where the data
\* file is absent and the update pipeline could have been run.
C6_Witness ==
    /\ IsPdbCcd(last)
    /\ last.category \notin C6_Enumeration
    /\ Raised(last.res, "ScicodaInputError")
    /\ Sentinel \notin DOMAIN files
    /\ importable
    /\ runs < MaxRuns

\* C7: pdb.ccd with variant "any", comp_id None and a valid category raises
\* ScicodaInputError whose message mentions comp_id and variant.
C7_AsStated ==
    (/\ IsPdbCcd(last)
     /\ last.variant = "any"
     /\ last.comp_id = None
     /\ last.category \in C6_Enumeration)
    => /\ Raised(last.res, "ScicodaInputError")
       /\ {"comp_id", "variant"} \subseteq last.res.info.mentions

\* C8: a successful run of update.pdb.ccd writes, for every category, exactly
\* the files ccd-{category}-aa.parquet and ccd-{category}-non_aa.parquet under
\* {data_dir}/pdb, so that a pdb.ccd call that has just generated the files
\* does not fail with ScicodaFileNotFoundError.
C8_AsStated ==
    /\ (IsUpdate(last) /\ Returned(last.res)) =>
          /\ last.res.value.out =
                { "data/pdb/ccd-" \o last.categories[i] \o "-" \o var \o ".parquet" :
                     i \in 1..Len(last.categories), var \in {"aa", "non_aa"} }
          /\ last.res.value.out \subseteq DOMAIN files
    /\ (IsPdbCcd(last) /\ last.ran_ok) =>
          ~ Raised(last.res, "ScicodaFileNotFoundError")

\* A step that is a pdb.ccd call with a valid category and the data file
\* absent: what it does when the import succeeds and when it fails.
C9_Step ==
    (/\ IsPdbCcd(last')
     /\ last'.category \in C6_Enumeration
     /\ Sentinel \notin DOMAIN files)
    => IF importable
       THEN /\ last'.ran
            /\ runs' = runs + 1
            /\ Len(last'.trace) >= 3
            /\ last'.trace[3] = "update"
            /\ \A i \in 1..Len(last'.trace) : last'.trace[i] = "get_file" => i > 3
       ELSE /\ Raised(last'.res, "ScicodaMissingDependencyError")
            /\ ~ last'.ran
            /\ \A i \in 1..Len(last'.trace) : last'.trace[i] # "update"
            /\ UNCHANGED <<files, cache, nextId, runs>>

\* C9: a pdb.ccd call with a valid category that finds the data file absent
\* raises ScicodaMissingDependencyError and runs no part of the update
\* pipeline when the import fails; when the import succeeds it runs the update
\* pipeline before it reads any table.
C9_LazyMaterialisation == [][C9_Step]_vars

\* C9 witness: pdb.ccd raised ScicodaMissingDependencyError with the data file
\* absent.
C9_Witness ==
    /\ IsPdbCcd(last)
    /\ Raised(last.res, "ScicodaMissingDependencyError")
    /\ Sentinel \notin DOMAIN files
    /\ ~ importable

\* A step: a pdb.ccd call runs the pipeline only with the data file absent, a
\* successful run leaves the data file present, and the file is never removed.
C10_Step ==
    /\ (IsPdbCcd(last') /\ runs' # runs) => Sentinel \notin DOMAIN files
    /\ (runs' # runs /\ ((IsPdbCcd(last') /\ last'.ran_ok)
                         \/ (IsUpdate(last') /\ Returned(last'.res))))
          => Sentinel \in DOMAIN files'
    /\ Sentinel \in DOMAIN files => Sentinel \in DOMAIN files'

\* C10: a pdb.ccd call runs the update pipeline only when it finds the data
\* file absent; a run that completes successfully leaves the data file
\* present, and no step removes it: so after one successful run no later
\* pdb.ccd call runs the pipeline again.
C10_OneTimeMaterialisation == [][C10_Step]_vars

\* C10 witness: after a run of the pipeline, a pdb.ccd call with the data file
\* present read a table without running the pipeline, although it could have.
C10_Witness ==
    /\ IsPdbCcd(last)
    /\ ~ last.ran
    /\ Returned(last.res)
    /\ Sentinel \in DOMAIN files
    /\ importable
    /\ runs >= 1
    /\ runs < MaxRuns

(***************************************************************************)
(* Properties of the filtered reads (SpecCcd, Spec).                       *)
(***************************************************************************)
\* The stored table of variant var of a CCD category, and its rows whose
\* identity column is among the lowercased component ids.
StoredCcd(category, var) ==
    files[FilePath(FILE_CATEGORY_NAME, CcdFileName(category, var), "parquet")]

FilteredCcd(category, var, comp_id) ==
    LET df == StoredCcd(category, var) IN
    FilterRows(df, {i \in 1..Len(df) : df[i][IdCol(category)] \in LowerAll(comp_id)})

\* The first non-empty filtered table among the variants from the i-th on,
\* else the empty table.
RECURSIVE FirstNonEmpty(_, _, _, _)
FirstNonEmpty(category, variants, comp_id, i) ==
    IF i > Len(variants) THEN << >>
    ELSE IF Len(FilteredCcd(category, variants[i], comp_id)) > 0
    THEN FilteredCcd(category, variants[i], comp_id)
    ELSE FirstNonEmpty(category, variants, comp_id, i + 1)

\* The last call was pdb.ccd with component ids and a valid category, it got
\* past the file check, and the file of every variant it tries is readable.
FilteredCcdCall ==
    /\ IsPdbCcd(last)
    /\ last.comp_id # None
    /\ last.category \in CCD_CATEGORY_NAMES
    /\ Sentinel \in DOMAIN files
    /\ last.ran => last.ran_ok
    /\ \A k \in 1..Len(Variants(last.variant)) :
          LET p == FilePath(FILE_CATEGORY_NAME,
                            CcdFileName(last.category, Variants(last.variant)[k]),
                            "parquet")
          IN p \in DOMAIN files /\ files[p] # TornFile

\* C11: pdb.ccd with comp_id given returns the filtered table of the first
\* variant, in the order [aa, non_aa] or the single named variant, whose
\* filtered table is non-empty, and an empty table when all are empty.
C11_AsStated ==
    FilteredCcdCall =>
        /\ Returned(last.res)
        /\ last.res.value.data =
              FirstNonEmpty(last.category, Variants(last.variant), last.comp_id.data, 1)

\* The paths under which a chem_comp table of either variant may be stored.
ChemCompFiles ==
    { FilePath(FILE_CATEGORY_NAME, CcdFileName("chem_comp", "aa"), "parquet"),
      FilePath(FILE_CATEGORY_NAME, CcdFileName("chem_comp", "non_aa"), "parquet"),
      UpdateFilePath("chem_comp", VariantSuffixes[1]),
      UpdateFilePath("chem_comp", VariantSuffixes[2]) }

\* Component id x, in some letter case, is in the curated chem_comp data.
InCuratedChemComp(x) ==
    \E p \in ChemCompFiles \cap DOMAIN files :
        /\ files[p] # TornFile
        /\ \E i \in 1..Len(files[p]) : Lower(files[p][i].id) = Lower(x)

\* C12: pdb.ccd(comp_id=[X'], category="chem_comp", variant="any") for a
\* component present in the curated chem_comp data returns exactly one row,
\* whose id equals X' ignoring letter case.
C12_AsStated ==
    ( /\ IsPdbCcd(last)
      /\ last.comp_id # None
      /\ last.category = "chem_comp"
      /\ last.variant = "any"
      /\ Sentinel \in DOMAIN files /\ files[Sentinel] # TornFile
      /\ last.ran => last.ran_ok
      /\ InCuratedChemComp(last.comp_id.data[1]) )
    => /\ Returned(last.res)
       /\ Len(last.res.value.data) = 1
       /\ Lower(last.res.value.data[1].id) = Lower(last.comp_id.data[1])

\* C13: a parquet load given a filter predicate succeeds and returns exactly
\* the rows of the stored table that satisfy the predicate.
C13_AsStated ==
    LET p == FilePath(last.category, last.name, "parquet") IN
    ( /\ last.op = "get_file(filterby)"
      /\ p \in DOMAIN files )
    => /\ Returned(last.res)
       /\ last.res.value.data =
             FilterRows(files[p], {i \in 1..Len(files[p]) :
                                     files[p][i].symbol \in last.filterby})

(***************************************************************************)
(* Properties of the CCD curator (SpecCurator).                            *)
(***************************************************************************)
\* The curator ran to its return statement.
Curated_ == last.op = "create.pdb.ccd" /\ ~ last.locals.raised

\* The categories the run met, and the tables category_dfs holds for one.
CuratedCategories == DOMAIN last.locals.category_dfs
VariantTables(cat) == last.locals.category_dfs[cat]

\* The identity key of a category: the columns of the fixed table, else the
\* columns shared by the variants' tables.
IdentityKey(cat) ==
    IF CCD_CATEGORY_CHECK(cat) # {} THEN CCD_CATEGORY_CHECK(cat)
    ELSE {c \in Columns(VariantTables(cat)[1]) :
            \A k \in 1..Len(VariantTables(cat)) : c \in Columns(VariantTables(cat)[k])}

\* The identity key value of a row, and the key values of a table.
RowKey(cat, row) == [c \in IdentityKey(cat) |-> row[c]]
TableKeys(cat, df) == {RowKey(cat, df[i]) : i \in 1..Len(df)}

\* No two rows of df share an identity key.
KeysUnique(cat, df) ==
    \A i, j \in 1..Len(df) : RowKey(cat, df[i]) = RowKey(cat, df[j]) => i = j

\* The indices of the first occurrences of the identity keys in df.
FirstOccurrences(cat, df) ==
    {i \in 1..Len(df) : \A j \in 1..(i - 1) : RowKey(cat, df[j]) # RowKey(cat, df[i])}

\* C14: after the deduplication step, in every category and every variant's
\* table, no two surviving rows share an identity key, and the survivors are
\* the first occurrences of the keys, in the input order.
C14_DedupInvariant ==
    Curated_ =>
        \A cat \in CuratedCategories :
            /\ Len(last.locals.variant_dfs_dedup[cat]) = Len(VariantTables(cat))
            /\ \A k \in 1..Len(VariantTables(cat)) :
                  LET in == VariantTables(cat)[k]
                      out == last.locals.variant_dfs_dedup[cat][k]
                  IN /\ KeysUnique(cat, out)
                     /\ out = FilterRows(in, FirstOccurrences(cat, in))

\* C14 witness: the curator removed a repeated bond from a table that also
\* holds the same bond in the other atom order.
C14_Witness ==
    /\ Curated_
    /\ \E cat \in CuratedCategories, k \in 1..2 :
          /\ k <= Len(VariantTables(cat))
          /\ Len(last.locals.variant_dfs_dedup[cat][k]) < Len(VariantTables(cat)[k])
    /\ \E cat \in CuratedCategories :
          Cardinality(IdentityKey(cat)) > 1 /\ Len(last.locals.variant_dfs_dedup[cat][1]) > 1

\* The row of df with identity key key.
RowOfKey(cat, df, key) == df[CHOOSE i \in 1..Len(df) : RowKey(cat, df[i]) = key]

\* C15: the merged table of every category has one row per identity key, its
\* keys are the union of the variants' keys, a key of both variants keeps the
\* main variant's row, with the conflict recorded under "merge" when the
\* protonation row differs, and a category of one variant is merged verbatim.
C15_MergeInvariant ==
    Curated_ =>
        \A cat \in CuratedCategories :
            LET merged == last.locals.merged_df[cat]
                dedup == last.locals.variant_dfs_dedup[cat]
                problems == last.res.value.problems
            IN /\ KeysUnique(cat, merged)
               /\ TableKeys(cat, merged) =
                     UNION {TableKeys(cat, VariantTables(cat)[k]) :
                               k \in 1..Len(VariantTables(cat))}
               /\ Len(dedup) = 1 => merged = dedup[1]
               /\ Len(dedup) = 2 =>
                     \A key \in TableKeys(cat, dedup[1]) \cap TableKeys(cat, dedup[2]) :
                        /\ RowOfKey(cat, merged, key) = RowOfKey(cat, dedup[1], key)
                        /\ RowOfKey(cat, dedup[1], key) # RowOfKey(cat, dedup[2], key)
                              => /\ "merge" \in DOMAIN problems
                                 /\ cat \in DOMAIN problems["merge"]
                                 /\ \E i \in 1..Len(problems["merge"][cat]) :
                                       problems["merge"][cat][i] =
                                          RowOfKey(cat, dedup[2], key)

\* C15 witness: both dictionaries describe a component under different names,
\* and the protonation dictionary adds a bond to those of the main one.
C15_Witness ==
    /\ Curated_
    /\ "merge" \in DOMAIN last.res.value.problems
    /\ "chem_comp_bond" \in CuratedCategories
    /\ Len(VariantTables("chem_comp_bond")) = 2
    /\ Len(last.locals.merged_df["chem_comp_bond"]) >= 2

\* The ids of the chem_comp table of the protonation dictionary.
ProtonationCompIds ==
    UNION { {last.source.protonation[c].df[i].id :
                i \in 1..Len(last.source.protonation[c].df)} :
            c \in {c \in 1..Len(last.source.protonation) :
                      last.source.protonation[c].name = "chem_comp"} }

\* C16: every row of a merged table is in exactly one of the two output
\* tables: in the amino-acid table exactly when its id (chem_comp) or comp_id
\* (other categories) is an id of the protonation dictionary's chem_comp.
C16_Partition ==
    Curated_ =>
        \A cat \in CuratedCategories :
            LET merged == last.locals.merged_df[cat]
                aa == {i \in 1..Len(merged) : merged[i][IdCol(cat)] \in ProtonationCompIds}
                df_aa == last.res.value.category_df_aa[cat]
                df_non_aa == last.res.value.category_df_non_aa[cat]
            IN /\ df_aa = FilterRows(merged, aa)
               /\ df_non_aa = FilterRows(merged, (1..Len(merged)) \ aa)
               /\ Len(df_aa) + Len(df_non_aa) = Len(merged)
               /\ \A i \in 1..Len(df_aa), j \in 1..Len(df_non_aa) : df_aa[i] # df_non_aa[j]

\* C16 witness: a merged chem_comp table is split into a non-empty amino-acid
\* table and a non-empty table of the other components.
C16_Witness ==
    /\ Curated_
    /\ Len(last.res.value.category_df_aa["chem_comp"]) > 0
    /\ Len(last.res.value.category_df_non_aa["chem_comp"]) > 0

\* The two output tables of a category.
OutputTables(cat) ==
    { last.res.value.category_df_aa[cat], last.res.value.category_df_non_aa[cat] }

\* C17: in both output tables of chem_comp_bond every row has
\* atom_id_1 <= atom_id_2, whatever the order in the source dictionaries.
C17_AsStated ==
    (Curated_ /\ "chem_comp_bond" \in CuratedCategories) =>
        \A df \in OutputTables("chem_comp_bond") :
            \A i \in 1..Len(df) : AtomRank(df[i].atom_id_1) <= AtomRank(df[i].atom_id_2)

\* C18: no output table has a column _block or a column whose name ends with
\* _esd_digits.
C18_AsStated ==
    Curated_ =>
        \A cat \in CuratedCategories : \A df \in OutputTables(cat) :
            \A i \in 1..Len(df) : \A col \in DOMAIN df[i] :
                col # "_block" /\ ~ IsEsdCol(col)

\* The categories of the two fetched dictionaries, with their variant.
FetchedCategories ==
    UNION { { [variant |-> v, cat |-> last.source[v][c]] :
                c \in 1..Len(last.source[v]) } : v \in {"main", "protonation"} }

\* Some row of some fetched category has a block code that differs from its
\* component id, letter case aside.
BlockMismatch ==
    \E fc \in FetchedCategories : \E i \in 1..Len(fc.cat.df) :
        Lower(fc.cat.df[i]["_block"]) # Lower(fc.cat.df[i][IdCol(fc.cat.name)])

\* C19: a block code that differs from the component id, letter case aside,
\* in any category of either dictionary aborts the run with an exception: no
\* tables and no problems are returned; without such a row no exception is
\* raised.
C19_ProvenanceCheck ==
    last.op = "create.pdb.ccd" =>
        /\ BlockMismatch =>
              /\ Raised(last.res, "ValueError")
              /\ "value" \notin DOMAIN last.res
              /\ last.locals = NoLocals
        /\ ~ BlockMismatch => Returned(last.res)

\* C19 witness: the run was aborted for a mismatch in the protonation
\* dictionary after the main dictionary, whose block codes all match, had
\* given validation errors.
C19_Witness ==
    /\ last.op = "create.pdb.ccd"
    /\ Raised(last.res, "ValueError")
    /\ last.source.main[1].errors # << >>
    /\ \A c \in 1..Len(last.source.main) : \A i \in 1..Len(last.source.main[c].df) :
          last.source.main[c].df[i]["_block"]
             = last.source.main[c].df[i][IdCol(last.source.main[c].name)]

\* C20: on dictionaries that pass the provenance check the curator returns
\* both output mappings and the problems, whatever validation errors,
\* duplicates and conflicts it met; validation errors are recorded under their
\* variant and category, and the table keeps all its rows.
C20_DiagnosticsNotFatal ==
    (last.op = "create.pdb.ccd" /\ ~ BlockMismatch) =>
        /\ Returned(last.res)
        /\ DOMAIN last.res.value.category_df_aa = {fc.cat.name : fc \in FetchedCategories}
        /\ DOMAIN last.res.value.category_df_non_aa = {fc.cat.name : fc \in FetchedCategories}
        /\ \A fc \in FetchedCategories :
              /\ fc.cat.errors # << >> =>
                    /\ fc.variant \in DOMAIN last.res.value.problems
                    /\ fc.cat.name \in DOMAIN last.res.value.problems[fc.variant]
                    /\ last.res.value.problems[fc.variant][fc.cat.name].validation
                          = fc.cat.errors
              /\ \E k \in 1..Len(VariantTables(fc.cat.name)) :
                    LET df == VariantTables(fc.cat.name)[k] IN
                    /\ Len(df) = Len(fc.cat.df)
                    /\ \A i \in 1..Len(df) :
                          \A col \in DOMAIN df[i] : df[i][col] = fc.cat.df[i][col]

\* C20 witness: the curator returned on dictionaries with validation errors
\* in the protonation dictionary, repeated rows and a merge conflict.
C20_Witness ==
    /\ Curated_
    /\ "merge" \in DOMAIN last.res.value.problems
    /\ "protonation" \in DOMAIN last.res.value.problems
    /\ "chem_comp" \in DOMAIN last.res.value.problems["protonation"]
    /\ "validation" \in DOMAIN last.res.value.problems["protonation"]["chem_comp"]
    /\ "main" \in DOMAIN last.res.value.problems
    /\ \E cat \in DOMAIN last.res.value.problems["main"] :
          "duplicates" \in DOMAIN last.res.value.problems["main"][cat]

(***************************************************************************)
(* The order of the checks of data.get_file (Spec).                        *)
(***************************************************************************)
\* The last call was get_file with an unsupported extension, for a key
\* without a cache entry and without a file {name}.{extension}.
UnsupportedAndMissing ==
    /\ IsGetFile(last)
    /\ last.extension \notin Supported
    /\ Entry(last.category, last.name) = None
    /\ ~ is_file(files, FilePath(last.category, last.name, last.extension))

\* C25: get_file looks the file up before it validates the extension: a call
\* with an unsupported extension, no file {name}.{extension} and no cache
\* entry raises ScicodaFileNotFoundError for that path, not ScicodaInputError.
C25_LookupBeforeValidation ==
    UnsupportedAndMissing =>
        /\ ~ Raised(last.res, "ScicodaInputError")
        /\ last.res = ScicodaFileNotFoundError(
                          last.category, last.name,
                          FilePath(last.category, last.name, last.extension))

\* C25 witness: such a call was made for a key whose json file exists, so
\* only the extension made the lookup fail.
C25_Witness ==
    /\ UnsupportedAndMissing
    /\ is_file(files, FilePath(last.category, last.name, "json"))
    /\ Raised(last.res, "ScicodaFileNotFoundError")

(***************************************************************************)
(* The kind of the object data.get_file returns (Spec).                    *)
(***************************************************************************)
\* The kind the overloads of get_file declare for an extension and a lazy
\* flag: parsed JSON, an eager table, or a lazy frame.
DeclaredKind(extension, lazy) ==
    IF extension = "json" THEN "json"
    ELSE IF lazy THEN "LazyFrame" ELSE "DataFrame"

\* C27 as stated: the object a get_file call returns for a supported
\* extension has the kind its own extension and lazy flag ask for, whatever
\* calls for the same (category, name) came before.
C27_AsStated ==
    (IsGetFile(last) /\ last.extension \in Supported /\ Returned(last.res)) =>
        last.res.value.kind = DeclaredKind(last.extension, last.lazy)

(***************************************************************************)
(* The attribution of removed duplicates (SpecCurator).                    *)
(***************************************************************************)
\* The fetched dictionary of variant v holds the category cat_name.
VariantHas(v, cat_name) ==
    \E c \in 1..Len(last.source[v]) : last.source[v][c].name = cat_name

\* The position in category_dfs[cat_name] of the table that came from
\* variant v: the main dictionary is read first.
TableIndexOf(v, cat_name) ==
    IF v = "main" \/ ~ VariantHas("main", cat_name) THEN 1 ELSE 2

\* The deduplication removed rows from the table of variant v in cat_name.
HasDuplicates(v, cat_name) ==
    LET df == VariantTables(cat_name)[TableIndexOf(v, cat_name)] IN
    FirstOccurrences(cat_name, df) # 1..Len(df)

\* The Problem Record holds 'duplicates' under variant v and cat_name.
DuplicatesRecorded(v, cat_name) ==
    /\ v \in DOMAIN last.res.value.problems
    /\ cat_name \in DOMAIN last.res.value.problems[v]
    /\ "duplicates" \in DOMAIN last.res.value.problems[v][cat_name]

\* C26 as stated: the rows removed from a variant's table are recorded as
\* 'duplicates' under that same variant and the category, and under no
\* variant whose table lost no row, also for a category only the protonation
\* dictionary holds; a 'validation' entry of the variant and category stays.
C26_AsStated ==
    Curated_ =>
        \A fc \in FetchedCategories :
            /\ HasDuplicates(fc.variant, fc.cat.name)
                  <=> DuplicatesRecorded(fc.variant, fc.cat.name)
            /\ fc.cat.errors # << >> =>
                   "validation" \in
                      DOMAIN last.res.value.problems[fc.variant][fc.cat.name]
            /\ ~ VariantHas("main", fc.cat.name) =>
                   ~ DuplicatesRecorded("main", fc.cat.name)

(***************************************************************************)
(* The update driver and a curator that aborts (SpecCcd).                  *)
(***************************************************************************)
\* A step of update.pdb.ccd whose curator run raised.
UpdateStepAborted ==
    /\ last'.op = "update.pdb.ccd"
    /\ runs' = runs + 1
    /\ ~ Returned(last'.curated)

\* C30: update.pdb.ccd runs the curation before its first write: when the
\* curator raises, the call raises the same exception, no file is created
\* and every file keeps the content it had, files of earlier runs included.
C30_Step ==
    UpdateStepAborted =>
        /\ files' = files
        /\ last'.res = last'.curated
        /\ ~ Returned(last'.res)

C30_NoWriteOnAbort == [][C30_Step]_vars

\* C30 witness: a run whose curator raised ended on a data directory that
\* holds CCD files written by an earlier run.
C30_Witness ==
    /\ last.op = "update.pdb.ccd"
    /\ ~ Returned(last.curated)
    /\ runs = 2
    /\ UpdateFilePath("chem_comp", "noaa") \in DOMAIN files
    /\ files[UpdateFilePath("chem_comp", "noaa")] # TornFile

(***************************************************************************)
(* Properties of the periodic table (SpecAtom).                            *)
(***************************************************************************)
\* The columns of the public schema, in their order.
PublicSchema ==
    << "z", "symbol", "name", "period", "group", "block", "econfig", "mass",
       "vdwr", "vdwr_bo", "ie", "ea", "en_pauling", "oxstates", "state", "mp",
       "bp", "density", "color_cpk", "year" >>

\* C21 as stated: on the table of the 118 elements in any row order,
\* create.atom.periodic_table returns a table of 118 rows whose z column is
\* 1..118 ascending and whose columns are the 20 of the public schema in
\* their order.
C21_AsStated ==
    (last.op = "atom" /\ last.create_table # Pending) =>
        LET r == last.create_table[1] IN
        /\ Returned(r)
        /\ Len(r.value.rows) = 118
        /\ \A i \in 1..118 : r.value.rows[i]["z"] = i
        /\ r.value.columns = PublicSchema
        /\ \A i \in 1..118 :
              DOMAIN r.value.rows[i] = {PublicSchema[k] : k \in 1..Len(PublicSchema)}

\* The atomic numbers of the f-block rows without their first element.
Lanthanides == 58..71
Actinides == 90..103

NobleGases == {2, 10, 18, 36, 54, 86, 118}

C29_AsStated ==
    (last.op = "atom" /\ last.create_columns # Pending
                     /\ last.fetch_columns # Pending) =>
        LET c == last.create_columns[1]
            f == last.fetch_columns[1]
        IN /\ f.period = c.period
           /\ f.group = c.group
           /\ c.group_before_cast # Null => c.group_before_cast[1] \in 1..18
           /\ f.group_before_cast # Null => f.group_before_cast[1] \in 1..18

(***************************************************************************)
(* The update drivers and a write that fails (SpecCcd).                    *)
(***************************************************************************)
\* The position of the write of category number k, variant number v, in a
\* run of update.pdb.ccd over n categories: the amino-acid files first.
WritePosition(n, k, v) == (v - 1) * n + k

\* A step of update.pdb.ccd in which a write raised.
UpdateStepWriteFailed ==
    /\ last'.op = "update.pdb.ccd"
    /\ runs' = runs + 1
    /\ Raised(last'.res, "OSError")

\* C24: when a write of an update run fails, every file the run had written
\* before it is on disk with the complete table written for it, and no other
\* file but the one being written is removed or changed; a run of update_all
\* that fails keeps every file it wrote and leaves the others as they were.
C24_Step ==
    /\ UpdateStepWriteFailed =>
          LET cur == last'.curated.value
              n == Len(cur.order)
              Path(k, v) == UpdateFilePath(cur.order[k], VariantSuffixes[v])
              Table(k, v) == IF v = 1 THEN cur.category_df_aa[cur.order[k]]
                             ELSE cur.category_df_non_aa[cur.order[k]]
              failed == CHOOSE x \in (1..n) \X (1..2) :
                           Path(x[1], x[2]) = last'.res.info.filepath
              Earlier == {x \in (1..n) \X (1..2) :
                            WritePosition(n, x[1], x[2])
                               < WritePosition(n, failed[1], failed[2])}
          IN /\ \A x \in Earlier :
                   /\ Path(x[1], x[2]) \in DOMAIN files'
                   /\ files'[Path(x[1], x[2])] = Table(x[1], x[2])
             /\ \A p \in DOMAIN files :
                   /\ p \in DOMAIN files'
                   /\ (p # last'.res.info.filepath
                        /\ p \notin {Path(x[1], x[2]) : x \in Earlier})
                         => files'[p] = files[p]
    /\ (last'.op = "update_all" /\ ~ Returned(last'.res)) =>
          /\ \A p \in last'.written :
                p \in DOMAIN files' /\ files'[p] # TornFile
          /\ \A p \in (DOMAIN files) \ last'.written :
                p \in DOMAIN files' /\ files'[p] = files[p]

C24_EarlierFilesIntact == [][C24_Step]_vars

\* C24 witness: a run of update.pdb.ccd failed while writing a file of the
\* second variant, after it wrote every file of the first, on a directory
\* that holds them complete.
C24_Witness ==
    /\ last.op = "update.pdb.ccd"
    /\ Raised(last.res, "OSError")
    /\ Len(last.categories) >= 1
    /\ \E k \in 1..Len(last.categories) :
          last.res.info.filepath = UpdateFilePath(last.categories[k], "noaa")
    /\ \A k \in 1..Len(last.categories) :
          /\ UpdateFilePath(last.categories[k], "aa") \in DOMAIN files
          /\ files[UpdateFilePath(last.categories[k], "aa")]
                = last.curated.value.category_df_aa[last.categories[k]]

(***************************************************************************)
(* pdb.ccd and the calls made before it (SpecCcd).                         *)
(***************************************************************************)
\* The cache entries of a category.
Entry_(category) == IF category \in DOMAIN cache THEN cache[category] ELSE EmptyDict

\* What a call gave its caller, object identities aside: the kind and the
\* rows of a returned table, or the exception.
Outcome(res) ==
    IF Returned(res) THEN [kind |-> res.value.kind, data |-> res.value.data]
    ELSE res

\* Every cache entry of c holds the whole content of its parquet file in fs:
\* no file changed since it was loaded, and no entry is a part of its file.
CacheHoldsFiles(c, fs) ==
    \A category \in DOMAIN c : \A name \in DOMAIN c[category] :
        LET p == FilePath(category, name, "parquet") IN
        /\ p \in DOMAIN fs
        /\ c[category][name].data = fs[p]

\* A step of pdb.ccd that reads the data files as they are, without a run
\* of the update pipeline, with every cache entry loaded from the files as
\* they are.
PdbCcdStepFilesUnchanged ==
    /\ last'.op = "pdb.ccd"
    /\ ~ last'.ran
    /\ files' = files
    /\ CacheHoldsFiles(cache, files)

\* C28: with the data files unchanged, pdb.ccd gives for (comp_id, category,
\* variant) what it gives a process that made no call before, whatever calls
\* came earlier; and the entries a call stores hold whole files, so that no
\* filtered table is kept for a later call.
C28_Step ==
    PdbCcdStepFilesUnchanged =>
        /\ Outcome(last'.res) =
              Outcome(pdb_ccd(files, EmptyDict, 1, importable, last'.comp_id,
                              last'.category, last'.variant, NoOutcome.curated,
                              NoOutcome.fail, NoOutcome.torn).res)
        /\ CacheHoldsFiles(cache', files')

C28_HistoryIndependent == [][C28_Step]_vars

\* C28 witness: pdb.ccd returned the whole table of a variant from a cache
\* entry that calls made before it stored.
C28_Witness ==
    /\ last.op = "pdb.ccd"
    /\ last.comp_id = None
    /\ ~ last.ran
    /\ Returned(last.res)
    /\ Len(last.res.value.data) > 0
    /\ CacheHoldsFiles(cache, files)
    /\ \E name \in DOMAIN Entry_(FILE_CATEGORY_NAME) :
          Entry_(FILE_CATEGORY_NAME)[name].id + 1 < last.res.value.id

====
